---- MODULE Spec2Model ----
(***************************************************************************)
(* A model of the XBRL-to-RDF translator (xbrl_to_rdf.py): the constructor *)
(* XBRLToRDF.__init__, the five translation passes of xbrl_to_rdf and      *)
(* save_rdf_graph.  The RDF graph is a set of triples <<s, p, o>>, as an   *)
(* rdflib Graph is.                                                        *)
(***************************************************************************)
EXTENDS Integers, Sequences, FiniteSets, TLC

(***************************************************************************)
(* Bounds of the model.                                                    *)
(***************************************************************************)
MaxConcepts == 3
MaxContexts == 2
MaxFacts == 2
MaxRels == 2
MaxCalls == 2
MaxSaves == 2
MaxLoads == 2
MaxTriples == 4
MaxParses == 2

(***************************************************************************)
(* Python values.  NULL stands for None (or any other falsy value of an    *)
(* attribute), ABSENT for an attribute the object does not have (hasattr   *)
(* is False).                                                              *)
(***************************************************************************)
NULL == "NULL"
ABSENT == "ABSENT"

hasattr(v) == v # ABSENT
truthy(v) == v # ABSENT /\ v # NULL

(***************************************************************************)
(* RDF terms.  URIs are <<namespace, name>>, blank nodes <<"bnode", n>>,   *)
(* literals <<"lit", lexical form, datatype>>.  uuid.uuid4() and BNode()   *)
(* draw fresh identifiers, modelled by a counter.                          *)
(***************************************************************************)
CONCEPT(n) == <<"concept", n>>
CONTEXT(n) == <<"context", n>>
FACT(u) == <<"fact", u>>
REL(u) == <<"rel", u>>
TAXONOMY(n) == <<"taxonomy", n>>
COMPANY(n) == <<"company", n>>
XBRL(n) == <<"xbrl", n>>
BNode(n) == <<"bnode", n>>
Literal(v, dt) == <<"lit", v, dt>>

doc_uri == COMPANY("document")

\* A failure point of a pass: at = 0, the pass does not raise; otherwise the
\* pass raises at its at-th item, either when the item is fetched or read
\* first (body = FALSE: nothing of the item is in the graph) or after the
\* item's basic properties were added (body = TRUE).
NoRaise == [at |-> 0, body |-> FALSE]

Raised(f) == f.at # 0

\* The number of items the pass translates completely.
Done(f, n) == IF f.at = 0 THEN n ELSE f.at - 1

Partial(f) == f.at # 0 /\ f.body

FailurePoints(n) ==
    {NoRaise} \cup {[at |-> k, body |-> FALSE] : k \in 1..(n + 1)}
              \cup {[at |-> k, body |-> TRUE] : k \in 1..n}

(***************************************************************************)
(* translate_concepts                                                      *)
(***************************************************************************)
\* Concept URIs minted from the qualified name.
ConceptBasicQualified(c) ==
    { <<CONCEPT(c.namespace \o ":" \o c.localName), "rdf:type", XBRL("Concept")>>,
      <<CONCEPT(c.namespace \o ":" \o c.localName), "rdfs:label",
        Literal(c.localName, "plain")>> }

ConceptBasic(c) ==
    { <<CONCEPT(c.localName), "rdf:type", XBRL("Concept")>>,
      <<CONCEPT(c.localName), "rdfs:label", Literal(c.localName, "plain")>> }

ConceptAttributes(c) ==
    LET u == CONCEPT(c.localName) IN
       (IF truthy(c.label)
          THEN {<<u, "xbrl:standardLabel", Literal(c.label, "plain")>>} ELSE {})
    \cup (IF truthy(c.type)
          THEN {<<u, "xbrl:type", Literal(c.type, "plain")>>} ELSE {})
    \cup (IF hasattr(c.periodType)
          THEN {<<u, "xbrl:periodType", Literal(c.periodType, "plain")>>} ELSE {})
    \cup (IF truthy(c.balance)
          THEN {<<u, "xbrl:balance", Literal(c.balance, "plain")>>} ELSE {})
    \cup (IF hasattr(c.isAbstract)
          THEN {<<u, "xbrl:abstract", Literal(c.isAbstract, "xsd:boolean")>>} ELSE {})
    \cup (IF truthy(c.substitutionGroup)
          THEN {<<u, "xbrl:substitutionGroup", Literal(c.substitutionGroup, "plain")>>}
          ELSE {})

ConceptTriples(c) == ConceptBasic(c) \cup ConceptAttributes(c)

\* A concepts pass that drops its partial output when it raises.
translate_concepts_discarding(m, graph) ==
    LET items == m.qnameConcepts
        f == m.raises.concepts
    IN  [g |-> IF Raised(f) THEN graph
               ELSE graph \cup UNION {ConceptTriples(items[i]) : i \in 1..Len(items)},
         raised |-> Raised(f)]

\* The loop of translate_concepts over qnameConcepts.values(): the triples
\* of the concepts before the failure point, and the basic properties of the
\* concept whose body raised.
translate_concepts(m, graph) ==
    LET items == m.qnameConcepts
        f == m.raises.concepts
    IN  [g |-> graph
                \cup UNION {ConceptTriples(items[i]) : i \in 1..Done(f, Len(items))}
                \cup (IF Partial(f) THEN ConceptBasic(items[f.at]) ELSE {}),
         raised |-> Raised(f)]

(***************************************************************************)
(* Helpers on sequences.                                                   *)
(***************************************************************************)
RECURSIVE Sum(_)
Sum(s) == IF s = <<>> THEN 0 ELSE Head(s) + Sum(Tail(s))

RECURSIVE Flatten(_)
Flatten(ss) == IF ss = <<>> THEN <<>> ELSE Head(ss) \o Flatten(Tail(ss))

\* Identifiers that are not fresh: every item draws the same one.
FreshBeforeReused(counts, i) == 0

\* The fresh identifiers drawn by the items before the i-th.
FreshBefore(counts, i) == Sum(SubSeq(counts, 1, i - 1))

(***************************************************************************)
(* translate_contexts                                                      *)
(***************************************************************************)
ContextBasic(c) ==
    { <<CONTEXT(c.id), "rdf:type", XBRL("Context")>>,
      <<CONTEXT(c.id), "xbrl:id", Literal(c.id, "plain")>> }

EntityTriples(c, n) ==
    IF hasattr(c.entityIdentifier)
      THEN { <<CONTEXT(c.id), "xbrl:entity", BNode(n)>>,
             <<BNode(n), "rdf:type", XBRL("Entity")>> }
           \cup (IF truthy(c.entityIdentifier)
                   THEN { <<BNode(n), "xbrl:identifier", Literal(c.entityIdentifier, "plain")>>,
                          <<BNode(n), "xbrl:scheme", Literal(c.entityScheme, "plain")>> }
                   ELSE {})
      ELSE {}

PeriodTriples(c, n) ==
    IF hasattr(c.period)
      THEN { <<CONTEXT(c.id), "xbrl:period", BNode(n)>>,
             <<BNode(n), "rdf:type", XBRL("Period")>> }
           \cup (IF c.isInstantPeriod
                   THEN {<<BNode(n), "xbrl:instant", Literal(c.instantDatetime, "xsd:dateTime")>>}
                   ELSE IF c.isStartEndPeriod
                   THEN { <<BNode(n), "xbrl:startDate", Literal(c.startDatetime, "xsd:dateTime")>>,
                          <<BNode(n), "xbrl:endDate", Literal(c.endDatetime, "xsd:dateTime")>> }
                   ELSE {})
      ELSE {}

SegmentTriples(c, d, n) ==
    { <<CONTEXT(c.id), "xbrl:segment", BNode(n)>>,
      <<BNode(n), "rdf:type", XBRL("Segment")>>,
      <<BNode(n), "xbrl:dimension", CONCEPT(d.dimension)>> }
    \cup (IF truthy(d.member)
            THEN {<<BNode(n), "xbrl:member", CONCEPT(d.member)>>}
            ELSE IF hasattr(d.typedMember)
            THEN {<<BNode(n), "xbrl:typedValue", Literal(d.typedMember, "plain")>>}
            ELSE {})

EntityFresh(c) == IF hasattr(c.entityIdentifier) THEN 1 ELSE 0
PeriodFresh(c) == IF hasattr(c.period) THEN 1 ELSE 0
ContextFresh(c) == EntityFresh(c) + PeriodFresh(c) + Len(c.qnameDims)

\* The triples of one context, its blank nodes drawn from n on.
ContextTriples(c, n) ==
    ContextBasic(c)
    \cup EntityTriples(c, n)
    \cup PeriodTriples(c, n + EntityFresh(c))
    \cup UNION { SegmentTriples(c, c.qnameDims[j],
                                n + EntityFresh(c) + PeriodFresh(c) + j - 1)
                 : j \in 1..Len(c.qnameDims) }

translate_contexts(m, graph, n) ==
    LET items == m.contexts
        f == m.raises.contexts
        done == Done(f, Len(items))
        counts == [i \in 1..done |-> ContextFresh(items[i])]
    IN  [g |-> graph
                \cup UNION { ContextTriples(items[i], n + FreshBefore(counts, i))
                             : i \in 1..done }
                \cup (IF Partial(f) THEN ContextBasic(items[f.at]) ELSE {}),
         fresh |-> n + Sum(counts),
         raised |-> Raised(f)]

(***************************************************************************)
(* translate_facts                                                         *)
(***************************************************************************)
FactBasic(n) ==
    { <<FACT(n), "rdf:type", XBRL("Fact")>>,
      <<doc_uri, "xbrl:hasFact", FACT(n)>> }

\* Links added without the guards on fact.concept and fact.context.
FactLinksUnguarded(fact, n) ==
    { <<FACT(n), "xbrl:concept", CONCEPT(fact.concept)>>,
      <<FACT(n), "xbrl:context", CONTEXT(fact.context)>> }

FactLinks(fact, n) ==
       (IF truthy(fact.concept)
          THEN {<<FACT(n), "xbrl:concept", CONCEPT(fact.concept)>>} ELSE {})
    \cup (IF truthy(fact.context)
          THEN {<<FACT(n), "xbrl:context", CONTEXT(fact.context)>>} ELSE {})

HasUnitNode(fact) ==
    hasattr(fact.value) /\ fact.value # NULL /\ fact.isNumeric /\ truthy(fact.unit)

\* All measures of the unit, numerators and denominators alike, that have a
\* localName.
UnitTriples(fact, b) ==
    LET ms == Flatten(fact.measures) IN
    { <<BNode(b), "rdf:type", XBRL("Unit")>> }
    \cup { <<BNode(b), "xbrl:measure", Literal(ms[j], "plain")>>
           : j \in {k \in 1..Len(ms) : hasattr(ms[k])} }

\* The two accuracy attributes read in the other order.
AccuracyDecimalsFirst(fact, n) ==
    IF hasattr(fact.decimals) /\ fact.decimals # NULL
      THEN {<<FACT(n), "xbrl:decimals", Literal(fact.decimals, "plain")>>}
      ELSE IF hasattr(fact.precision) /\ fact.precision # NULL
      THEN {<<FACT(n), "xbrl:precision", Literal(fact.precision, "plain")>>}
      ELSE {}

\* precision is read first, decimals only when precision is None or missing.
Accuracy(fact, n) ==
    IF hasattr(fact.precision) /\ fact.precision # NULL
      THEN {<<FACT(n), "xbrl:precision", Literal(fact.precision, "plain")>>}
      ELSE IF hasattr(fact.decimals) /\ fact.decimals # NULL
      THEN {<<FACT(n), "xbrl:decimals", Literal(fact.decimals, "plain")>>}
      ELSE {}

\* The value translated without the isNumeric test: every fact as a numeric one.
FactValueAllNumeric(fact, n) ==
    IF hasattr(fact.value) /\ fact.value # NULL
      THEN {<<FACT(n), "xbrl:value", Literal(fact.value, "xsd:decimal")>>}
           \cup (IF truthy(fact.unit)
                   THEN {<<FACT(n), "xbrl:unit", BNode(n + 1)>>}
                        \cup UnitTriples(fact, n + 1)
                   ELSE {})
           \cup Accuracy(fact, n)
      ELSE {}

FactValue(fact, n) ==
    IF hasattr(fact.value) /\ fact.value # NULL
      THEN IF fact.isNumeric
             THEN {<<FACT(n), "xbrl:value", Literal(fact.value, "xsd:decimal")>>}
                  \cup (IF truthy(fact.unit)
                          THEN {<<FACT(n), "xbrl:unit", BNode(n + 1)>>}
                               \cup UnitTriples(fact, n + 1)
                          ELSE {})
                  \cup Accuracy(fact, n)
             ELSE {<<FACT(n), "xbrl:value", Literal(fact.value, "plain")>>}
      ELSE {}

UnitFresh(fact) == IF HasUnitNode(fact) THEN 1 ELSE 0

Footnotes(fact, n) ==
    UNION { { <<FACT(n), "xbrl:footnote", BNode(n + UnitFresh(fact) + j)>>,
              <<BNode(n + UnitFresh(fact) + j), "rdf:type", XBRL("Footnote")>> }
            \cup (IF hasattr(fact.footnotes[j])
                    THEN {<<BNode(n + UnitFresh(fact) + j), "xbrl:text",
                            Literal(fact.footnotes[j], "plain")>>}
                    ELSE {})
            : j \in 1..Len(fact.footnotes) }

FactFresh(fact) == 1 + UnitFresh(fact) + Len(fact.footnotes)

\* The triples of one fact; n is the fact's uuid, its blank nodes follow.
FactTriples(fact, n) ==
    FactBasic(n) \cup FactLinks(fact, n) \cup FactValue(fact, n) \cup Footnotes(fact, n)

translate_facts(m, graph, n) ==
    LET items == m.facts
        f == m.raises.facts
        done == Done(f, Len(items))
        counts == [i \in 1..done |-> FactFresh(items[i])]
    IN  [g |-> graph
                \cup UNION { FactTriples(items[i], n + FreshBefore(counts, i))
                             : i \in 1..done }
                \cup (IF Partial(f) THEN FactBasic(n + Sum(counts)) ELSE {}),
         fresh |-> n + Sum(counts) + (IF Partial(f) THEN 1 ELSE 0),
         uris |-> [i \in 1..(done + (IF Partial(f) THEN 1 ELSE 0)) |->
                      n + FreshBefore(counts, i)],
         raised |-> Raised(f)]

(***************************************************************************)
(* translate_relationships                                                 *)
(***************************************************************************)
\* The edges of the relationship-set index in iteration order, each with the
\* arcrole and linkrole it is found under.
LinkroleEdges(arcrole, l) ==
    [j \in 1..Len(l.modelRelationships) |->
        [arcrole |-> arcrole, linkrole |-> l.linkrole, rel |-> l.modelRelationships[j]]]

ArcroleEdges(a) ==
    Flatten([j \in 1..Len(a.linkroles) |-> LinkroleEdges(a.arcrole, a.linkroles[j])])

\* An index walk that yields one edge per relationship set, and so one for
\* an empty set too.
EdgesPerSet(index) ==
    Flatten([j \in 1..Len(index) |->
        [k \in 1..Len(index[j].linkroles) |->
            [arcrole |-> index[j].arcrole,
             linkrole |-> index[j].linkroles[k].linkrole,
             rel |-> [fromModelObject |-> NULL, toModelObject |-> NULL,
                      order |-> NULL, weight |-> NULL, preferredLabel |-> NULL]]]])

Edges(index) == Flatten([j \in 1..Len(index) |-> ArcroleEdges(index[j])])

RelBasic(n) ==
    { <<REL(n), "rdf:type", XBRL("Relationship")>>,
      <<doc_uri, "xbrl:hasRelationship", REL(n)>> }

\* The triples of one relationship with the two roles taken for each other.
RelTriplesRolesSwapped(e, n) ==
    RelBasic(n)
    \cup { <<REL(n), "xbrl:arcrole", Literal(e.linkrole, "plain")>>,
           <<REL(n), "xbrl:linkrole", Literal(e.arcrole, "plain")>> }
    \cup (IF truthy(e.rel.fromModelObject)
            THEN {<<REL(n), "xbrl:source", CONCEPT(e.rel.fromModelObject)>>} ELSE {})
    \cup (IF truthy(e.rel.toModelObject)
            THEN {<<REL(n), "xbrl:target", CONCEPT(e.rel.toModelObject)>>} ELSE {})

RelTriples(e, n) ==
    RelBasic(n)
    \cup { <<REL(n), "xbrl:arcrole", Literal(e.arcrole, "plain")>>,
           <<REL(n), "xbrl:linkrole", Literal(e.linkrole, "plain")>> }
    \cup (IF truthy(e.rel.fromModelObject)
            THEN {<<REL(n), "xbrl:source", CONCEPT(e.rel.fromModelObject)>>} ELSE {})
    \cup (IF truthy(e.rel.toModelObject)
            THEN {<<REL(n), "xbrl:target", CONCEPT(e.rel.toModelObject)>>} ELSE {})
    \cup (IF hasattr(e.rel.order) /\ e.rel.order # NULL
            THEN {<<REL(n), "xbrl:order", Literal(e.rel.order, "xsd:decimal")>>} ELSE {})
    \cup (IF hasattr(e.rel.weight) /\ e.rel.weight # NULL
            THEN {<<REL(n), "xbrl:weight", Literal(e.rel.weight, "xsd:decimal")>>} ELSE {})
    \cup (IF truthy(e.rel.preferredLabel)
            THEN {<<REL(n), "xbrl:preferredLabel", Literal(e.rel.preferredLabel, "plain")>>}
            ELSE {})

translate_relationships(m, graph, n) ==
    LET items == IF m.relationshipSets.present
                   THEN Edges(m.relationshipSets.index) ELSE <<>>
        f == m.raises.relationships
        done == Done(f, Len(items))
    IN  [g |-> graph
                \cup UNION { RelTriples(items[i], n + i - 1) : i \in 1..done }
                \cup (IF Partial(f) THEN RelBasic(n + done) ELSE {}),
         fresh |-> n + done + (IF Partial(f) THEN 1 ELSE 0),
         raised |-> Raised(f)]

(***************************************************************************)
(* translate_taxonomy                                                      *)
(***************************************************************************)
SchemaTriples(s) ==
    { <<TAXONOMY("main"), "xbrl:hasSchema", TAXONOMY(s.localName)>>,
      <<TAXONOMY(s.localName), "rdf:type", XBRL("Schema")>>,
      <<TAXONOMY(s.localName), "xbrl:namespace", Literal(s.namespaceURI, "plain")>> }

LinkbaseTriples(l) ==
    { <<TAXONOMY("main"), "xbrl:hasLinkbase", TAXONOMY(l.localName)>>,
      <<TAXONOMY(l.localName), "rdf:type", XBRL("Linkbase")>>,
      <<TAXONOMY(l.localName), "xbrl:role", Literal(l.role, "plain")>> }

\* The schemas are translated first, then the linkbases.  A body failure
\* leaves the item's first triple (hasSchema or hasLinkbase).
translate_taxonomy(m, graph) ==
    LET t == m.taxonomy
        f == m.raises.taxonomy
        ns == Len(t.schemas)
        done == Done(f, ns + Len(t.linkbases))
        item(i) == IF i <= ns THEN SchemaTriples(t.schemas[i])
                   ELSE LinkbaseTriples(t.linkbases[i - ns])
        first(i) == IF i <= ns
                      THEN {<<TAXONOMY("main"), "xbrl:hasSchema",
                              TAXONOMY(t.schemas[i].localName)>>}
                      ELSE {<<TAXONOMY("main"), "xbrl:hasLinkbase",
                              TAXONOMY(t.linkbases[i - ns].localName)>>}
    IN  IF ~t.present
          THEN [g |-> graph, raised |-> FALSE]
          ELSE [g |-> graph
                      \cup {<<TAXONOMY("main"), "rdf:type", XBRL("Taxonomy")>>}
                      \cup (IF hasattr(t.entryPoint)
                              THEN {<<TAXONOMY("main"), "xbrl:entryPoint",
                                      Literal(t.entryPoint, "plain")>>}
                              ELSE {})
                      \cup UNION { item(i) : i \in 1..done }
                      \cup (IF Partial(f) THEN first(f.at) ELSE {}),
                raised |-> Raised(f)]

(***************************************************************************)
(* The except clauses of the five passes (lines 99-100, 147-148, 206-207,  *)
(* 245-246, 275-278): the errors list after the pass.  The first four      *)
(* print the exception; translate_taxonomy logs it and appends it.         *)
(***************************************************************************)
except_concepts(errs, raised) == errs

except_contexts(errs, raised) == errs

except_facts(errs, raised) == errs

except_relationships(errs, raised) == errs

\* An except clause that keeps only the entry of the current call.
except_taxonomy_replacing(errs, raised) ==
    IF raised THEN <<"Error translating taxonomy">> ELSE errs

except_taxonomy(errs, raised) ==
    IF raised THEN Append(errs, "Error translating taxonomy") ELSE errs

PassOrder == <<"concepts", "contexts", "facts", "relationships", "taxonomy">>

Passes == {PassOrder[i] : i \in 1..Len(PassOrder)}

\* The calls of lines 280-294 with the facts pass ahead of the contexts pass.
FollowingFactsFirst(p) ==
    CASE p = "concepts" -> "facts"
      [] p = "facts" -> "contexts"
      [] p = "contexts" -> "relationships"
      [] p = "relationships" -> "taxonomy"
      [] p = "taxonomy" -> "finish"

\* The statement of xbrl_to_rdf that follows pass p (lines 280-296).
Following(p) ==
    CASE p = "concepts" -> "contexts"
      [] p = "contexts" -> "facts"
      [] p = "facts" -> "relationships"
      [] p = "relationships" -> "taxonomy"
      [] p = "taxonomy" -> "finish"

\* A pass without its try/except: the exception reaches xbrl_to_rdf's own
\* handler, which raises it again.
AfterPassPropagating(p, raised) == IF raised THEN "raised" ELSE Following(p)

\* Where xbrl_to_rdf goes on after pass p: every pass catches its own
\* exception and returns normally, so the next statement runs either way.
AfterPass(p, raised) == Following(p)

\* __init__'s test "not xbrl_model": None and every other falsy object.
Falsy(a) == a.kind \in {"none", "falsy"}

(***************************************************************************)
(* The state.                                                              *)
(***************************************************************************)
VARIABLES
    arg,          \* the object handed to XBRLToRDF(...)
    pc,           \* where the caller and xbrl_to_rdf stand
    ctorError,    \* the error __init__ raised, "none" when it did not
    errors,       \* self.errors
    g,            \* the graph of the current xbrl_to_rdf call
    fresh,        \* the next fresh identifier (uuid4, BNode)
    calls,        \* the xbrl_to_rdf calls begun
    ran,          \* the passes begun in the current call, in order
    caught,       \* the passes of the current call whose exception was caught
    errorsAtCall, \* Len(self.errors) when the current call began
    factUris,     \* the uuid of each fact the current call began, in order
    saves,        \* the save_rdf_graph calls made
    lastSave,     \* the arguments and outcome of the last save_rdf_graph call
    files,        \* what graph.serialize has written
    model_xbrl,   \* XBRLParser.model_xbrl
    loadLog,      \* the load_filing calls made: their argument and outcome
    filings,      \* what the engine finds at each file path
    lastQuery,    \* the last query made of the parser and its result
    rdf_graph,    \* RDFVisualizer.rdf_graph
    vpc,          \* where the visualizer stands
    nx_graph,     \* RDFVisualizer.nx_graph
    graph_data,   \* what export_to_json has written
    returns,      \* what each completed xbrl_to_rdf call returned and logged
    mpc,          \* where parse_amazon_xbrl stands
    mcalls,       \* the parse_amazon_xbrl calls begun
    trace,        \* the steps the current parse_amazon_xbrl call has taken
    response,     \* the status of xbrl_response, 0 before it is received
    temp_file,    \* temp_amazon.xbrl on disk
    controller,   \* the local variable controller
    model_manager,\* the local variable model_manager
    outcome       \* what parse_amazon_xbrl returns or raises (last set)

vars == <<arg, pc, ctorError, errors, g, fresh, calls, ran, caught,
          errorsAtCall, factUris, saves, lastSave, files,
          model_xbrl, loadLog, filings, lastQuery, rdf_graph, vpc, nx_graph, graph_data,
          returns, mpc, mcalls, trace, response, temp_file, controller,
          model_manager, outcome>>

callVars == <<g, fresh, calls, ran, caught, errorsAtCall, factUris>>
saveVars == <<saves, lastSave, files>>
translatorVars == <<arg, pc, ctorError, errors, callVars, saveVars, returns>>
parserVars == <<model_xbrl, loadLog, filings, lastQuery>>
visualizerVars == <<rdf_graph, vpc, nx_graph, graph_data>>
mainVars == <<mpc, mcalls, trace, response, temp_file, controller,
              model_manager, outcome>>

NoSave == [graph |-> "none", triples |-> {}, filename |-> NULL,
           format |-> "turtle", error |-> "none", serialized |-> FALSE]

(***************************************************************************)
(* XBRLToRDF.__init__                                                      *)
(***************************************************************************)
Construct ==
    /\ pc = "new"
    /\ IF Falsy(arg)
         THEN /\ pc' = "rejected"
              /\ ctorError' = "XBRL model cannot be None"
         ELSE /\ pc' = "idle"
              /\ ctorError' = "none"
    /\ errors' = <<>>
    /\ UNCHANGED <<arg, callVars, saveVars, parserVars, visualizerVars, returns,
                   mainVars>>

(***************************************************************************)
(* xbrl_to_rdf                                                             *)
(***************************************************************************)
Callable == pc \in {"idle", "returned", "raised"}

\* Lines 33-63: the graph, the namespace bindings, the document root.
DocumentTriples(now) ==
    { <<doc_uri, "rdf:type", XBRL("Instance")>>,
      <<doc_uri, "dcterms:created", <<"datetime", now>> >> }

\* One Graph made in __init__ and filled again by every call.
EnterKeepingGraph(entry) ==
    /\ calls' = calls + 1
    /\ g' = IF entry = "concepts" THEN g \cup DocumentTriples(calls') ELSE {}
    /\ ran' = <<>>
    /\ caught' = <<>>
    /\ errorsAtCall' = Len(errors)
    /\ factUris' = <<>>
    /\ pc' = entry
    /\ UNCHANGED <<arg, ctorError, errors, fresh, saveVars, parserVars, visualizerVars,
                   returns, mainVars>>

\* The outer except clause recording the fatal error in self.errors.
EnterCollecting(entry) ==
    /\ calls' = calls + 1
    /\ g' = IF entry = "concepts" THEN DocumentTriples(calls') ELSE {}
    /\ ran' = <<>>
    /\ caught' = <<>>
    /\ errorsAtCall' = Len(errors)
    /\ factUris' = <<>>
    /\ pc' = entry
    /\ errors' = IF entry = "raised"
                   THEN Append(errors, "Fatal error during RDF translation")
                   ELSE errors
    /\ UNCHANGED <<arg, ctorError, fresh, saveVars, parserVars, visualizerVars, returns,
                   mainVars>>

Enter(entry) ==
    /\ calls' = calls + 1
    /\ g' = IF entry = "concepts" THEN DocumentTriples(calls') ELSE {}
    /\ ran' = <<>>
    /\ caught' = <<>>
    /\ errorsAtCall' = Len(errors)
    /\ factUris' = <<>>
    /\ pc' = entry
    /\ UNCHANGED <<arg, ctorError, errors, fresh, saveVars, parserVars, visualizerVars, returns,
                   mainVars>>

\* The first call on a new translator.
xbrl_to_rdf_begin ==
    /\ pc = "idle"
    /\ Enter("concepts")

\* A further call on the same translator.
xbrl_to_rdf_again ==
    /\ pc \in {"returned", "raised"}
    /\ calls < MaxCalls
    /\ \E entry \in {"concepts", "raised"} : Enter(entry)

\* Lines 305-307: an exception outside the passes (the graph cannot be
\* built) is logged and raised again.
xbrl_to_rdf_fatal ==
    /\ pc = "idle"
    /\ Enter("raised")

Step(p, r, errs) ==
    /\ g' = r.g
    /\ errors' = errs
    /\ ran' = Append(ran, p)
    /\ caught' = IF r.raised THEN Append(caught, p) ELSE caught
    /\ pc' = AfterPass(p, r.raised)
    /\ UNCHANGED <<arg, ctorError, calls, errorsAtCall, saveVars, parserVars,
                   visualizerVars, returns,
                   mainVars>>

run_translate_concepts ==
    /\ pc = "concepts"
    /\ LET r == translate_concepts(arg.model, g)
       IN  Step("concepts", r, except_concepts(errors, r.raised))
    /\ UNCHANGED <<fresh, factUris>>

run_translate_contexts ==
    /\ pc = "contexts"
    /\ LET r == translate_contexts(arg.model, g, fresh)
       IN  /\ Step("contexts", r, except_contexts(errors, r.raised))
           /\ fresh' = r.fresh
    /\ UNCHANGED factUris

run_translate_facts ==
    /\ pc = "facts"
    /\ LET r == translate_facts(arg.model, g, fresh)
       IN  /\ Step("facts", r, except_facts(errors, r.raised))
           /\ fresh' = r.fresh
           /\ factUris' = r.uris

run_translate_relationships ==
    /\ pc = "relationships"
    /\ LET r == translate_relationships(arg.model, g, fresh)
       IN  /\ Step("relationships", r, except_relationships(errors, r.raised))
           /\ fresh' = r.fresh
    /\ UNCHANGED factUris

run_translate_taxonomy ==
    /\ pc = "taxonomy"
    /\ LET r == translate_taxonomy(arg.model, g)
       IN  Step("taxonomy", r, except_taxonomy(errors, r.raised))
    /\ UNCHANGED <<fresh, factUris>>

\* Lines 296-303: the summary is logged and the graph returned.
xbrl_to_rdf_return ==
    /\ pc = "finish"
    /\ pc' = "returned"
    /\ returns' = Append(returns, [graph |-> g, warnings |-> errors])
    /\ UNCHANGED <<arg, ctorError, errors, callVars, saveVars, parserVars,
                   visualizerVars, mainVars>>

(***************************************************************************)
(* save_rdf_graph                                                          *)
(***************************************************************************)
\* A format list that lacks json-ld.
SupportedFormatsWithoutJsonLd == {"turtle", "xml", "n3"}

SupportedFormats == {"turtle", "xml", "n3", "json-ld"}

\* "not graph": None, and a Graph without triples (Graph defines __len__).
GraphFalsy(graph) == graph.kind = "none" \/ graph.triples = {}

\* "not filename": None and the empty string.
FilenameFalsy(filename) == filename \in {NULL, ""}

\* The argument checks with the format checked first.
ArgumentErrorFormatFirst(graph, filename, format) ==
    IF format \notin SupportedFormats THEN "Unsupported format"
    ELSE IF GraphFalsy(graph) THEN "RDF graph cannot be None"
    ELSE IF FilenameFalsy(filename) THEN "Output filename cannot be None"
    ELSE "none"

\* Lines 319-326: the ValueError the argument checks raise, "none" when the
\* arguments pass them.
ArgumentError(graph, filename, format) ==
    IF GraphFalsy(graph) THEN "RDF graph cannot be None"
    ELSE IF FilenameFalsy(filename) THEN "Output filename cannot be None"
    ELSE IF format \notin SupportedFormats THEN "Unsupported format"
    ELSE "none"

\* Lines 331-333: the entry appended for an exception e.
SaveErrorMessage(e) ==
    CASE e = "RDF graph cannot be None" ->
             "Error saving RDF graph: RDF graph cannot be None"
      [] e = "Output filename cannot be None" ->
             "Error saving RDF graph: Output filename cannot be None"
      [] e = "Unsupported format" ->
             "Error saving RDF graph: Unsupported format"
      [] OTHER -> "Error saving RDF graph: serialize failed"

\* An except clause that covers graph.serialize alone: the ValueErrors of
\* the argument checks leave no entry.
except_save_serialize_only(errs, e) ==
    IF e = "serialize failed" THEN Append(errs, SaveErrorMessage(e)) ELSE errs

\* Lines 330-335: any exception of the try block (lines 318-328) is
\* appended once and raised again; without one nothing is appended.
except_save(errs, e) ==
    IF e = "none" THEN errs ELSE Append(errs, SaveErrorMessage(e))

GraphKind(graph) ==
    IF graph.kind = "none" THEN "none"
    ELSE IF graph.triples = {} THEN "empty" ELSE "nonempty"

NoGraph == [kind |-> "none", triples |-> {}]

\* The graphs a caller may hand to save_rdf_graph: None, a new Graph(),
\* and the graph the last xbrl_to_rdf call returned.
GraphArguments ==
    { NoGraph,
      [kind |-> "graph", triples |-> {}] }
    \cup (IF pc = "returned" THEN {[kind |-> "graph", triples |-> g]} ELSE {})

Filenames == {NULL, "", "out.ttl"}

Formats == {"turtle", "xml", "n3", "json-ld", "nt", "TURTLE"}

\* graph.serialize either writes the file or raises (an I/O error, a
\* missing serializer plugin).
SerializeOutcomes == {"none", "serialize failed"}

save_rdf_graph ==
    /\ Callable
    /\ saves < MaxSaves
    /\ \E graph \in GraphArguments, filename \in Filenames, format \in Formats,
          io \in SerializeOutcomes :
         LET check == ArgumentError(graph, filename, format)
             e == IF check # "none" THEN check ELSE io
         IN  /\ lastSave' = [graph |-> GraphKind(graph), triples |-> graph.triples,
                             filename |-> filename, format |-> format,
                             error |-> e, serialized |-> (check = "none")]
             /\ files' = IF e = "none"
                           THEN files \cup {[destination |-> filename,
                                             format |-> format,
                                             triples |-> graph.triples]}
                           ELSE files
             /\ errors' = except_save(errors, e)
    /\ saves' = saves + 1
    /\ UNCHANGED <<arg, pc, ctorError, callVars, parserVars, visualizerVars, returns,
                   mainVars>>

(***************************************************************************)
(* The filing models the translator is run on.                             *)
(***************************************************************************)
Concept(localName, namespace, label, type, periodType, balance, isAbstract, sg) ==
    [localName |-> localName, namespace |-> namespace, label |-> label,
     type |-> type, periodType |-> periodType, balance |-> balance,
     isAbstract |-> isAbstract, substitutionGroup |-> sg]

Revenues ==
    Concept("Revenues", "us-gaap", "Revenues", "monetaryItemType", "duration",
            "credit", "false", "item")

Assets ==
    Concept("Assets", "us-gaap", NULL, NULL, "instant", NULL, "false", NULL)

\* A concept of another taxonomy with the local name of Revenues.
RevenuesIfrs ==
    Concept("Revenues", "ifrs", "Revenue", ABSENT, "duration", ABSENT, ABSENT, ABSENT)

\* A tuple declaration: no periodType attribute in the schema, so the
\* engine's periodType is None; no label, no named type, no balance.
Address ==
    Concept("Address", "us-gaap", NULL, NULL, NULL, NULL, "false", "tuple")

ConceptSamples == {Revenues, Assets, RevenuesIfrs, Address}

\* Context ids are the keys of the contexts dict, so they differ.
ContextIds == <<"FY2024", "I2024", "Q1", "Q2">>

Context(id, shape) ==
    [id |-> id, entityIdentifier |-> shape.entityIdentifier,
     entityScheme |-> "http://www.sec.gov/CIK", period |-> shape.period,
     isInstantPeriod |-> shape.isInstantPeriod,
     isStartEndPeriod |-> shape.isStartEndPeriod,
     instantDatetime |-> "2024-12-31", startDatetime |-> "2024-01-01",
     endDatetime |-> "2024-12-31", qnameDims |-> shape.qnameDims]

\* No period attribute, no period element, an instant, a duration, and the
\* forever period of XBRL 2.1 (neither instant nor start/end).
PeriodShapes ==
    { [period |-> ABSENT, isInstantPeriod |-> FALSE, isStartEndPeriod |-> FALSE],
      [period |-> NULL, isInstantPeriod |-> FALSE, isStartEndPeriod |-> FALSE],
      [period |-> "period", isInstantPeriod |-> TRUE, isStartEndPeriod |-> FALSE],
      [period |-> "period", isInstantPeriod |-> FALSE, isStartEndPeriod |-> TRUE],
      [period |-> "period", isInstantPeriod |-> FALSE, isStartEndPeriod |-> FALSE] }

ExplicitDim == [dimension |-> "SegmentAxis", member |-> "RetailMember", typedMember |-> ABSENT]

TypedDim == [dimension |-> "RegionAxis", member |-> NULL, typedMember |-> "EMEA"]

\* A dimension value without a member and without a typedMember attribute.
BareDim == [dimension |-> "ScenarioAxis", member |-> NULL, typedMember |-> ABSENT]

Shape(e, p, d) ==
    [entityIdentifier |-> e, period |-> p.period,
     isInstantPeriod |-> p.isInstantPeriod,
     isStartEndPeriod |-> p.isStartEndPeriod, qnameDims |-> d]

ContextShapes ==
    { Shape("0001018724", p, d) : p \in PeriodShapes, d \in {<<>>, <<ExplicitDim>>} }
    \cup { Shape(e, p, <<TypedDim>>)
           : e \in {NULL, ABSENT},
             p \in {q \in PeriodShapes : q.isStartEndPeriod} }
    \cup { Shape("0001018724", p, <<ExplicitDim, BareDim>>)
           : p \in {q \in PeriodShapes : q.isInstantPeriod} }

DurationShape ==
    [entityIdentifier |-> "0001018724", period |-> "period",
     isInstantPeriod |-> FALSE, isStartEndPeriod |-> TRUE, qnameDims |-> <<>>]

Fact(concept, context, value, isNumeric, unit, measures, precision, decimals, footnotes) ==
    [concept |-> concept, context |-> context, value |-> value,
     isNumeric |-> isNumeric, unit |-> unit, measures |-> measures,
     precision |-> precision, decimals |-> decimals, footnotes |-> footnotes]

\* Facts that differ in their links: a fact whose concept is not in the
\* taxonomy, or whose context is not in the instance, has None there.
FactLinkSamples ==
    { Fact(c, x, "500000000", TRUE, "unit", << <<"USD">> >>, NULL, "-6", <<>>)
      : c \in {NULL, "Revenues"}, x \in {NULL, "FY2024"} }

\* Facts that differ in their value and its accuracy.
FactValueSamples ==
    { Fact("Revenues", "FY2024", "500000000", TRUE, "unit", << <<"USD">> >>, p, d, <<>>)
      : p \in {NULL, "4"}, d \in {NULL, "-6"} }
    \cup { Fact("Revenues", "FY2024", NULL, TRUE, "unit", << <<"USD">> >>, "4", "-6", <<>>),
           Fact("Revenues", "FY2024", "n/a", FALSE, "unit", << <<"USD">> >>, "4", "-6", <<>>),
           Fact("Revenues", "FY2024", "n/a", FALSE, NULL, <<>>, NULL, NULL, <<>>) }

\* Facts that differ in their unit: fact.unit.measures is the pair of the
\* numerator measures and the denominator measures.  USD per share, shares
\* per USD, and the product USD x shares.
UnitSamples ==
    { Fact("Revenues", "FY2024", "2", TRUE, "unit", ms, NULL, NULL, <<>>)
      : ms \in { << <<"USD">>, <<"shares">> >>,
                 << <<"shares">>, <<"USD">> >>,
                 << <<"USD", "shares">>, <<>> >> } }

Rel(from, to, order, weight, preferredLabel) ==
    [fromModelObject |-> from, toModelObject |-> to, order |-> order,
     weight |-> weight, preferredLabel |-> preferredLabel]

RelSamples ==
    { Rel("Revenues", "Assets", "1", NULL, "terseLabel"),
      Rel("Assets", NULL, NULL, "-1", NULL) }

SeqsUpTo(S, n) == UNION {[1..k -> S] : k \in 0..n}

Linkrole(linkrole, rels) == [linkrole |-> linkrole, modelRelationships |-> rels]

Arcrole(arcrole, linkroles) == [arcrole |-> arcrole, linkroles |-> linkroles]

\* The relationship-set indexes: no arcrole, arcroles without linkroles,
\* linkroles with empty and non-empty relationship sets.
RelationshipIndexes ==
    LET sets == SeqsUpTo(RelSamples, MaxRels)
        first == {<<>>} \cup {<<Linkrole("role/IS", r)>> : r \in sets}
                 \cup {<<Linkrole("role/IS", r), Linkrole("role/BS", q)>>
                       : r \in sets, q \in {<<>>, <<Rel("Assets", "Revenues", NULL, NULL, NULL)>>}}
        second == {<<>>} \cup {<<Linkrole("role/IS", r)>> : r \in SeqsUpTo(RelSamples, 1)}
    IN  {<<>>} \cup {<<Arcrole("parent-child", l)>> : l \in first}
        \cup {<<Arcrole("parent-child", l), Arcrole("summation-item", k)>>
              : l \in first, k \in second}

RelationshipSets ==
    {[present |-> FALSE, index |-> <<>>]}
    \cup {[present |-> TRUE, index |-> i] : i \in RelationshipIndexes}

Schema(n) == [localName |-> n, namespaceURI |-> "http://fasb.org/us-gaap/2024"]

Linkbase(n) == [localName |-> n, role |-> "presentation"]

NoTaxonomy == [present |-> FALSE, entryPoint |-> ABSENT, schemas |-> <<>>, linkbases |-> <<>>]

Taxonomies ==
    {NoTaxonomy}
    \cup {[present |-> TRUE, entryPoint |-> e, schemas |-> s, linkbases |-> l]
          : e \in {ABSENT, "entry.xsd"},
            s \in {<<>>, <<Schema("us-gaap")>>},
            l \in {<<>>, <<Linkbase("pre")>>}}

\* The contents of the base model: three concepts, one context, two facts,
\* one relationship and a taxonomy of one schema and one linkbase.
BaseConcepts == <<Revenues, Assets, RevenuesIfrs>>

BaseContexts == <<Context("FY2024", DurationShape)>>

BaseFacts ==
    << Fact("Revenues", "FY2024", "500000000", TRUE, "unit", << <<"USD">> >>, NULL, "-6", <<>>),
       Fact("Assets", "FY2024", "n/a", FALSE, NULL, <<>>, NULL, NULL, <<"see note 1">>) >>

BaseRelationshipSets ==
    [present |-> TRUE,
     index |-> <<Arcrole("parent-child",
                         <<Linkrole("role/IS", <<Rel("Revenues", "Assets", "1", NULL, NULL)>>)>>)>>]

BaseTaxonomy ==
    [present |-> TRUE, entryPoint |-> "entry.xsd", schemas |-> <<Schema("us-gaap")>>,
     linkbases |-> <<Linkbase("pre")>>]

EdgeCount(r) == IF r.present THEN Len(Edges(r.index)) ELSE 0

\* The failure points of a pass over n items that a family of models
\* covers: none, all of them, the two extreme ones (at the first fetch
\* and in the body of the last item), or the first fetch alone.
Points(cover, p, n) ==
    CASE cover[p] = "never" -> {NoRaise}
      [] cover[p] = "any" -> FailurePoints(n)
      [] cover[p] = "first" -> {NoRaise, [at |-> 1, body |-> FALSE]}
      [] cover[p] = "ends" ->
             {NoRaise, [at |-> 1, body |-> FALSE]}
             \cup (IF n > 0 THEN {[at |-> n, body |-> TRUE]} ELSE {})

Only(S) == [p \in Passes |-> IF p \in S THEN "any" ELSE "never"]

Ends == [p \in Passes |-> "ends"]

OnlyEnds(S) == [p \in Passes |-> IF p \in S THEN "ends" ELSE "never"]

OnlyFirst(S) == [p \in Passes |-> IF p \in S THEN "first" ELSE "never"]

Model(cs, xs, fs, r, t, raises) ==
    [qnameConcepts |-> cs, contexts |-> xs, facts |-> fs,
     relationshipSets |-> r, taxonomy |-> t, raises |-> raises]

NoRaises ==
    [concepts |-> NoRaise, contexts |-> NoRaise, facts |-> NoRaise,
     relationships |-> NoRaise, taxonomy |-> NoRaise]

BaseModel ==
    Model(BaseConcepts, BaseContexts, BaseFacts, BaseRelationshipSets,
          BaseTaxonomy, NoRaises)

\* What a caller may hand to the constructor: None, a non-null object that is
\* falsy (an empty container), or a filing model.
NoModel == [kind |-> "none", model |-> BaseModel]

FalsyModel == [kind |-> "falsy", model |-> BaseModel]

\* The constructor's argument is a filing model of the given contents, with
\* the failure points `failing` covers.  A pass whose attribute the model
\* lacks runs no statement that can raise.
Given(cs, xs, fs, r, t, failing) ==
    \E a \in Points(failing, "concepts", Len(cs)),
       b \in Points(failing, "contexts", Len(xs)),
       c \in Points(failing, "facts", Len(fs)),
       d \in IF r.present THEN Points(failing, "relationships", EdgeCount(r))
             ELSE {NoRaise},
       e \in IF t.present
               THEN Points(failing, "taxonomy", Len(t.schemas) + Len(t.linkbases))
               ELSE {NoRaise} :
        arg = [kind |-> "model",
               model |-> Model(cs, xs, fs, r, t,
                               [concepts |-> a, contexts |-> b, facts |-> c,
                                relationships |-> d, taxonomy |-> e])]

\* The base model with every subset of its passes raising.
FailureModels ==
    Given(BaseConcepts, BaseContexts, BaseFacts, BaseRelationshipSets,
          BaseTaxonomy, Ends)

ConceptModels ==
    \E cs \in SeqsUpTo(ConceptSamples, MaxConcepts) :
        Given(cs, BaseContexts, BaseFacts, BaseRelationshipSets, BaseTaxonomy,
              Only({"concepts"}))

\* The shapes of the contexts that follow the first one: a forever period,
\* a typed dimension without an entity, an explicit and a bare dimension.
LaterShapes ==
    { Shape("0001018724", [period |-> "period", isInstantPeriod |-> FALSE,
                           isStartEndPeriod |-> FALSE], <<>>),
      Shape(NULL, [period |-> "period", isInstantPeriod |-> FALSE,
                   isStartEndPeriod |-> TRUE], <<TypedDim>>),
      Shape("0001018724", [period |-> "period", isInstantPeriod |-> TRUE,
                           isStartEndPeriod |-> FALSE], <<ExplicitDim, BareDim>>) }

\* The first context takes every shape, the later ones the shapes above.
ContextSeqs ==
    {<<>>}
    \cup UNION { {[i \in 1..k |-> Context(ContextIds[i],
                                          IF i = 1 THEN first ELSE later[i])]
                  : first \in ContextShapes, later \in [1..k -> LaterShapes]}
                : k \in 1..MaxContexts }

ContextModels ==
    \E xs \in ContextSeqs :
        Given(BaseConcepts, xs, BaseFacts, BaseRelationshipSets, BaseTaxonomy,
              OnlyEnds({"contexts"}))

FactModels ==
    \E fs \in SeqsUpTo(FactValueSamples, MaxFacts) :
        Given(BaseConcepts, BaseContexts, fs, BaseRelationshipSets, BaseTaxonomy,
              OnlyEnds({"facts"}))

RelationshipModels ==
    \E r \in RelationshipSets :
        Given(BaseConcepts, BaseContexts, BaseFacts, r, BaseTaxonomy,
              OnlyEnds({"relationships"}))

TaxonomyModels ==
    \E t \in Taxonomies :
        Given(BaseConcepts, BaseContexts, BaseFacts, BaseRelationshipSets, t,
              Only({"taxonomy"}))

UnitModels ==
    \E fs \in SeqsUpTo(UnitSamples, MaxFacts) :
        Given(BaseConcepts, BaseContexts, fs, BaseRelationshipSets, BaseTaxonomy,
              Only({}))

\* Models that differ in what the facts link to and in whether the concepts
\* and contexts they link to are translated.
LinkModels ==
    \E cs \in {<<>>, <<Revenues>>},
       xs \in {<<>>, BaseContexts},
       fs \in SeqsUpTo(FactLinkSamples, MaxFacts) :
        Given(cs, xs, fs, BaseRelationshipSets, BaseTaxonomy,
              OnlyEnds({"concepts", "contexts"}))

(***************************************************************************)
(* One translator, one translation.                                        *)
(***************************************************************************)
TranslatorStart ==
    /\ pc = "new"
    /\ ctorError = "none"
    /\ errors = <<>>
    /\ g = {}
    /\ fresh = 1
    /\ calls = 0
    /\ ran = <<>>
    /\ caught = <<>>
    /\ errorsAtCall = 0
    /\ factUris = <<>>
    /\ saves = 0
    /\ lastSave = NoSave
    /\ files = {}
    /\ returns = <<>>

\* A fact of a filing as the parser reads it: fact.concept.name, fact.value.
ParserFact(name, value) == [concept |-> name, value |-> value]

\* A filing: model_xbrl.facts in order and the types of model_xbrl.urlDocs.
Filing(facts, docs) == [facts |-> facts, docs |-> docs]

FilePaths == {"amzn-20231231.xml", "https://www.sec.gov/amzn.xml", "missing.xml"}

\* The filings on disk and on the web.
BaseFilings ==
    [path \in FilePaths |->
       CASE path = "amzn-20231231.xml" ->
              Filing(<<ParserFact("EntityRegistrantName", "AMAZON COM INC"),
                       ParserFact("Revenues", "100"),
                       ParserFact("Assets", "50"),
                       ParserFact("Revenues", "120")>>,
                     <<"INSTANCE", "SCHEMA", "LINKBASE">>)
         [] path = "https://www.sec.gov/amzn.xml" ->
              Filing(<<ParserFact("Goodwill", "7"),
                       ParserFact("NetIncomeLoss", "3")>>,
                     <<"INSTANCE", "SCHEMA">>)
         [] OTHER -> Filing(<<>>, <<>>)]

NoFilter == [given |-> FALSE, names |-> <<>>]

NoQuery == [name |-> "none", filter |-> NoFilter, after |-> 0,
            raised |-> "none", list |-> <<>>, dict |-> {}]

\* A new XBRLParser (lines 20-24 of xbrl_parser.py): no model loaded.
ParserNew ==
    /\ model_xbrl = NULL
    /\ loadLog = <<>>
    /\ lastQuery = NoQuery

ParserStart ==
    /\ ParserNew
    /\ filings = BaseFilings

NoGraphData == [nodes |-> {}, edges |-> {}]

\* No visualizer has been made.
VisualizerIdle ==
    /\ rdf_graph = {}
    /\ vpc = "none"
    /\ nx_graph = NoGraphData
    /\ graph_data = NoGraphData

NoOutcome == [raised |-> "none", model |-> NULL]

\* parse_amazon_xbrl has not been called.
MainIdle ==
    /\ mpc = "idle"
    /\ mcalls = 0
    /\ trace = <<>>
    /\ response = 0
    /\ temp_file = "absent"
    /\ controller = "unbound"
    /\ model_manager = "unbound"
    /\ outcome = NoOutcome

Start == TranslatorStart /\ ParserStart /\ VisualizerIdle /\ MainIdle

Init ==
    /\ \/ arg = NoModel
       \/ arg = FalsyModel
       \/ FailureModels
       \/ ConceptModels
       \/ ContextModels
       \/ FactModels
       \/ UnitModels
       \/ RelationshipModels
       \/ TaxonomyModels
       \/ LinkModels
    /\ Start

Next ==
    \/ Construct
    \/ xbrl_to_rdf_begin
    \/ xbrl_to_rdf_fatal
    \/ run_translate_concepts
    \/ run_translate_contexts
    \/ run_translate_facts
    \/ run_translate_relationships
    \/ run_translate_taxonomy
    \/ xbrl_to_rdf_return

Spec == Init /\ [][Next]_vars

(***************************************************************************)
(* The lifetime of a translator: repeated translations and saves.          *)
(***************************************************************************)
InitLifetime ==
    /\ \/ arg = NoModel
       \/ arg = FalsyModel
       \/ Given(<<Revenues>>, <<>>, <<>>, BaseRelationshipSets, BaseTaxonomy,
                OnlyFirst({"taxonomy"}))
    /\ Start

NextLifetime ==
    \/ Next
    \/ xbrl_to_rdf_again
    \/ save_rdf_graph

SpecLifetime == InitLifetime /\ [][NextLifetime]_vars

(***************************************************************************)
(* One translator, the same model translated repeatedly.                   *)
(***************************************************************************)
InitRepeated ==
    /\ \/ FailureModels
       \/ FactModels
       \/ RelationshipModels
    /\ Start

NextRepeated ==
    \/ Next
    \/ xbrl_to_rdf_again

SpecRepeated == InitRepeated /\ [][NextRepeated]_vars

(***************************************************************************)
(* XBRLParser.load_filing (xbrl_parser.py).                                *)
(***************************************************************************)
\* What the engine does with a file path: FileSource(file_path) raises,
\* model_manager.load raises, load returns None, or load returns the model
\* of the filing (named by its path).
EngineOutcomes(file_path) ==
    { [raised |-> "FileSource", model |-> NULL],
      [raised |-> "load", model |-> NULL],
      [raised |-> "none", model |-> NULL],
      [raised |-> "none", model |-> file_path] }

\* load_filing without its try/except: the engine's exception reaches the
\* caller.
LoadFilingPropagating(current, e) ==
    IF e.raised # "none"
      THEN [model_xbrl |-> current, returned |-> FALSE, raised |-> TRUE]
      ELSE [model_xbrl |-> e.model, returned |-> e.model # NULL, raised |-> FALSE]

\* Lines 36-42: self.model_xbrl is assigned only when load returns; an
\* exception is printed and False returned.
LoadFiling(current, e) ==
    IF e.raised # "none"
      THEN [model_xbrl |-> current, returned |-> FALSE, raised |-> FALSE]
      ELSE [model_xbrl |-> e.model, returned |-> e.model # NULL, raised |-> FALSE]

load_filing ==
    /\ Len(loadLog) < MaxLoads
    /\ \E file_path \in FilePaths :
         \E e \in EngineOutcomes(file_path) :
            LET r == LoadFiling(model_xbrl, e) IN
            /\ model_xbrl' = r.model_xbrl
            /\ loadLog' = Append(loadLog, [file_path |-> file_path, engine |-> e,
                                           returned |-> r.returned, raised |-> r.raised])
    /\ UNCHANGED <<filings, lastQuery, translatorVars, visualizerVars, mainVars>>

(***************************************************************************)
(* The guarded queries of XBRLParser (xbrl_parser.py).  A dict is the set  *)
(* of its <<key, value>> entries, a list a sequence.                       *)
(***************************************************************************)
\* "not self.model_xbrl": no model has been assigned.
NotLoaded(m) == m = NULL

\* Lines 51-88: concept name, key of the company information.
dei_concepts ==
    { <<"EntityRegistrantName", "company_name">>,
      <<"EntityCentralIndexKey", "cik">>,
      <<"TradingSymbol", "ticker">>,
      <<"DocumentPeriodEndDate", "period_end_date">>,
      <<"DocumentType", "document_type">>,
      <<"EntityFilerCategory", "filer_category">>,
      <<"AmendmentFlag", "amendment_flag">>,
      <<"DocumentFiscalYearFocus", "document_fiscal_year_focus">>,
      <<"DocumentFiscalPeriodFocus", "document_fiscal_period_focus">>,
      <<"EmployeeServiceShareBasedCompensationNonvestedAwardsCompensationCostExpensedInNextTwelveMonthsExpectedToExceedPercentage",
        "employee_service_share_based_compensation_nonvested_awards_compensation_cost_expensed_in_next_twelve_months_expected_to_exceed_percentage">>,
      <<"DocumentAnnualReport", "document_annual_report">>,
      <<"CurrentFiscalYearEndDate", "current_fiscal_year_end_date">>,
      <<"DocumentTransitionReport", "document_transition_report">>,
      <<"EntityFileNumber", "entity_file_number">>,
      <<"EntityIncorporationStateCountryCode",
        "entity_incorporation_state_country_code">>,
      <<"EntityTaxIdentificationNumber",
        "entity_tax_identification_number">>,
      <<"EntityAddressAddressLine1", "entity_address_address_line_1">>,
      <<"EntityAddressCityOrTown", "entity_address_city_or_town">>,
      <<"EntityAddressStateOrProvince", "entity_address_state_or_province">>,
      <<"EntityAddressPostalZipCode", "entity_address_postal_zip_code">>,
      <<"CityAreaCode", "city_area_code">>,
      <<"LocalPhoneNumber", "local_phone_number">>,
      <<"Security12bTitle", "security_12b_title">>,
      <<"SecurityExchangeName", "security_exchange_name">>,
      <<"EntityWellKnownSeasonedIssuer",
        "entity_well_known_seasoned_issuer">>,
      <<"EntityVoluntaryFilers", "entity_voluntary_filers">>,
      <<"EntityCurrentReportingStatus", "entity_current_reporting_status">>,
      <<"EntityInteractiveDataCurrent", "entity_interactive_data_current">>,
      <<"EntitySmallBusiness", "entity_small_business">>,
      <<"EntityEmergingGrowthCompany", "entity_emerging_growth_company">>,
      <<"IcfrAuditorAttestationFlag", "icfr_auditor_attestation_flag">>,
      <<"DocumentFinStmtErrorCorrectionFlag",
        "document_fin_stmt_error_correction_flag">>,
      <<"EntityShellCompany", "entity_shell_company">>,
      <<"EntityPublicFloat", "entity_public_float">>,
      <<"EntityCommonStockSharesOutstanding",
        "entity_common_stock_shares_outstanding">>,
      <<"DocumentsIncorporatedByReferenceTextBlock",
        "documents_incorporated_by_reference_text_block">> }

\* Lines 44-96: the value of the last fact of each DEI concept.
GetCompanyInfo(m, disk) ==
    IF NotLoaded(m) THEN {}
    ELSE LET facts == disk[m].facts
             last(name) == CHOOSE i \in 1..Len(facts) :
                              /\ facts[i].concept = name
                              /\ \A j \in (i + 1)..Len(facts) : facts[j].concept # name
         IN  { <<d[2], facts[last(d[1])].value>>
               : d \in {e \in dei_concepts :
                          \E i \in 1..Len(facts) : facts[i].concept = e[1]} }

\* Lines 120-129: the record of a fact (of its keys, the concept name and
\* the value).
fact_info(fact) == [concept |-> fact.concept, value |-> fact.value]

\* "concept_filter and ...": None and the empty list are falsy.
FilterFalsy(concept_filter) == ~concept_filter.given \/ concept_filter.names = <<>>

InFilter(name, concept_filter) ==
    \E k \in 1..Len(concept_filter.names) : concept_filter.names[k] = name

\* Line 117: the fact is skipped.
Skipped(fact, concept_filter) ==
    ~FilterFalsy(concept_filter) /\ ~InFilter(fact.concept, concept_filter)

\* Lines 108-132.
RECURSIVE FactsData(_, _)
FactsData(facts, concept_filter) ==
    IF facts = <<>> THEN <<>>
    ELSE (IF Skipped(Head(facts), concept_filter) THEN <<>>
          ELSE <<fact_info(Head(facts))>>)
         \o FactsData(Tail(facts), concept_filter)

ExtractFacts(m, disk, concept_filter) ==
    IF NotLoaded(m) THEN <<>> ELSE FactsData(disk[m].facts, concept_filter)

\* Lines 193-211.
income_statement_concepts ==
    <<"Revenues", "RevenueFromContractWithCustomerExcludingAssessedTax",
      "CostOfRevenue", "CostOfGoodsAndServicesSold", "GrossProfit",
      "OperatingExpenses", "OperatingIncomeLoss", "NetIncomeLoss",
      "EarningsPerShareBasic", "EarningsPerShareDiluted">>

balance_sheet_concepts ==
    <<"Assets", "AssetsCurrent", "AssetsNoncurrent",
      "Liabilities", "LiabilitiesCurrent", "LiabilitiesNoncurrent",
      "StockholdersEquity", "RetainedEarningsAccumulatedDeficit">>

cash_flow_concepts ==
    <<"NetCashProvidedByUsedInOperatingActivities",
      "NetCashProvidedByUsedInInvestingActivities",
      "NetCashProvidedByUsedInFinancingActivities",
      "CashAndCashEquivalentsAtCarryingValue">>

\* Lines 216-220.
StatementConcepts ==
    { <<"income_statement", income_statement_concepts>>,
      <<"balance_sheet", balance_sheet_concepts>>,
      <<"cash_flow", cash_flow_concepts>> }

\* Lines 189-225: a category is kept when extract_facts finds facts for it.
GetFinancialStatements(m, disk) ==
    IF NotLoaded(m) THEN {}
    ELSE { <<s[1], ExtractFacts(m, disk, [given |-> TRUE, names |-> s[2]])>>
           : s \in {c \in StatementConcepts :
                      ExtractFacts(m, disk, [given |-> TRUE, names |-> c[2]]) # <<>>} }

RECURSIVE Count(_, _)
Count(docs, type) ==
    IF docs = <<>> THEN 0
    ELSE (IF Head(docs) = type THEN 1 ELSE 0) + Count(Tail(docs), type)

\* Lines 229-257.  Line 249 reads `value`, a name the function never
\* binds: the first linkbase document raises NameError.
GetTaxonomyInfo(m, disk) ==
    IF NotLoaded(m) THEN [raised |-> "none", dict |-> {}]
    ELSE IF Count(disk[m].docs, "LINKBASE") > 0
           THEN [raised |-> "NameError", dict |-> {}]
    ELSE [raised |-> "none",
          dict |-> { <<"schema_refs", Count(disk[m].docs, "SCHEMA")>>,
                     <<"linkbase_refs", 0>>,
                     <<"namespaces", 0>> }]

Answer(name, concept_filter, raised, list, dict) ==
    /\ lastQuery' = [name |-> name, filter |-> concept_filter,
                     after |-> Len(loadLog), raised |-> raised,
                     list |-> list, dict |-> dict]
    /\ UNCHANGED <<model_xbrl, loadLog, filings, translatorVars, visualizerVars,
                   mainVars>>

get_company_info ==
    Answer("get_company_info", NoFilter, "none", <<>>,
           GetCompanyInfo(model_xbrl, filings))

\* The filters a caller passes to extract_facts: none, the empty list,
\* lists of names.
ConceptFilters ==
    { NoFilter,
      [given |-> TRUE, names |-> <<>>],
      [given |-> TRUE, names |-> <<"Revenues">>],
      [given |-> TRUE, names |-> <<"Assets", "Revenues">>],
      [given |-> TRUE, names |-> <<"Liabilities">>],
      [given |-> TRUE, names |-> cash_flow_concepts] }

extract_facts ==
    \E concept_filter \in ConceptFilters :
        Answer("extract_facts", concept_filter, "none",
               ExtractFacts(model_xbrl, filings, concept_filter), {})

get_financial_statements ==
    Answer("get_financial_statements", NoFilter, "none", <<>>,
           GetFinancialStatements(model_xbrl, filings))

get_taxonomy_info ==
    LET r == GetTaxonomyInfo(model_xbrl, filings)
    IN  Answer("get_taxonomy_info", NoFilter, r.raised, <<>>, r.dict)

InitParser ==
    /\ arg = NoModel
    /\ Start

NextParser ==
    \/ load_filing
    \/ get_company_info
    \/ extract_facts
    \/ get_financial_statements
    \/ get_taxonomy_info

SpecParser == InitParser /\ [][NextParser]_vars

\* The facts a filing may hold.
ParserFactSamples ==
    { ParserFact("Revenues", "100"),
      ParserFact("Assets", "50"),
      ParserFact("Revenues", "120"),
      ParserFact("CashAndCashEquivalentsAtCarryingValue", "9"),
      ParserFact("Goodwill", "7") }

\* A parser whose load_filing("amzn-20231231.xml") returned True, for
\* every filing of up to MaxFacts facts.
InitQueries ==
    /\ arg = NoModel
    /\ TranslatorStart /\ VisualizerIdle /\ MainIdle
    /\ \E facts \in SeqsUpTo(ParserFactSamples, MaxFacts),
          docs \in {<<"INSTANCE", "SCHEMA">>, <<"INSTANCE", "SCHEMA", "LINKBASE">>} :
          filings = [BaseFilings EXCEPT !["amzn-20231231.xml"] = Filing(facts, docs)]
    /\ model_xbrl = "amzn-20231231.xml"
    /\ loadLog = << [file_path |-> "amzn-20231231.xml",
                     engine |-> [raised |-> "none", model |-> "amzn-20231231.xml"],
                     returned |-> TRUE, raised |-> FALSE] >>
    /\ lastQuery = NoQuery

NextQueries ==
    \/ get_company_info
    \/ extract_facts
    \/ get_financial_statements
    \/ get_taxonomy_info

SpecQueries == InitQueries /\ [][NextQueries]_vars

(***************************************************************************)
(* parse_amazon_xbrl (main.py): the filing is downloaded, written to       *)
(* temp_amazon.xbrl, loaded by the engine, and the file removed.           *)
(***************************************************************************)
Log(step) == trace' = Append(trace, step)

Raise(e) == outcome' = [raised |-> e, model |-> NULL]

\* Lines 7-33: a call begins; its locals are unbound.
parse_amazon_xbrl ==
    /\ mpc \in {"idle", "exit"}
    /\ mcalls < MaxParses
    /\ mcalls' = mcalls + 1
    /\ mpc' = "get"
    /\ trace' = <<>>
    /\ response' = 0
    /\ controller' = "unbound"
    /\ model_manager' = "unbound"
    /\ UNCHANGED <<temp_file, outcome, translatorVars, parserVars, visualizerVars>>

\* The status codes the server answers with.
Statuses == {200, 403, 404, 429, 503}

\* Line 36: the request is sent; it is answered, or raises (no connection).
session_get ==
    /\ mpc = "get"
    /\ Log("get")
    /\ \/ \E status \in Statuses :
             /\ response' = status
             /\ mpc' = "status"
             /\ UNCHANGED outcome
       \/ /\ Raise("ConnectionError")
          /\ mpc' = "exit"
          /\ UNCHANGED response
    /\ UNCHANGED <<mcalls, temp_file, controller, model_manager, translatorVars,
                   parserVars, visualizerVars>>

\* A denied request sent again.
AfterStatusRetrying(status) ==
    IF status \in {403, 429} THEN "get"
    ELSE IF status >= 400 THEN "denied" ELSE "write"

\* Line 37: raise_for_status raises HTTPError for a 4xx or 5xx status.
AfterStatus(status) == IF status >= 400 THEN "denied" ELSE "write"

raise_for_status ==
    /\ mpc = "status"
    /\ mpc' = AfterStatus(response)
    /\ UNCHANGED <<mcalls, trace, response, temp_file, controller, model_manager,
                   outcome, translatorVars, parserVars, visualizerVars>>

\* Lines 76-82: the advice is printed for 403; the error is raised again.
except_HTTPError ==
    /\ mpc = "denied"
    /\ Log(IF response = 403 THEN "HTTPError, advice printed" ELSE "HTTPError")
    /\ Raise("HTTPError")
    /\ mpc' = "exit"
    /\ UNCHANGED <<mcalls, response, temp_file, controller, model_manager,
                   translatorVars, parserVars, visualizerVars>>

\* Lines 40-42: open(temp_file, "wb") creates the file and write fills it;
\* either may raise OSError, which no clause of the function handles.
write_temp_file ==
    /\ mpc = "write"
    /\ \/ /\ temp_file' = "written"
          /\ Log("written")
          /\ mpc' = "controller"
          /\ UNCHANGED outcome
       \/ /\ temp_file' = temp_file
          /\ Log("open raised")
          /\ Raise("OSError")
          /\ mpc' = "exit"
       \/ /\ temp_file' = "created"
          /\ Log("write raised")
          /\ Raise("OSError")
          /\ mpc' = "exit"
    /\ UNCHANGED <<mcalls, response, controller, model_manager, translatorVars,
                   parserVars, visualizerVars>>

\* Line 46.
init_controller ==
    /\ mpc = "controller"
    /\ \/ /\ controller' = "open"
          /\ mpc' = "manager"
          /\ Log("controller")
          /\ UNCHANGED outcome
       \/ /\ controller' = controller
          /\ mpc' = "finally"
          /\ Log("Cntlr raised")
          /\ Raise("Cntlr")
    /\ UNCHANGED <<mcalls, response, temp_file, model_manager, translatorVars,
                   parserVars, visualizerVars>>

\* Line 49.
init_model_manager ==
    /\ mpc = "manager"
    /\ \/ /\ model_manager' = "open"
          /\ mpc' = "load"
          /\ Log("manager")
          /\ UNCHANGED outcome
       \/ /\ model_manager' = model_manager
          /\ mpc' = "finally"
          /\ Log("initialize raised")
          /\ Raise("ModelManager")
    /\ UNCHANGED <<mcalls, response, temp_file, controller, translatorVars,
                   parserVars, visualizerVars>>

\* Line 52: ModelXbrl.load returns a model, returns None, or raises.
load ==
    /\ mpc = "load"
    /\ \/ /\ Log("loaded")
          /\ outcome' = [raised |-> "none", model |-> "temp_amazon.xbrl"]
          /\ mpc' = "print"
       \/ /\ Log("loaded None")
          /\ outcome' = NoOutcome
          /\ mpc' = "print"
       \/ /\ Log("load raised")
          /\ Raise("load")
          /\ mpc' = "finally"
    /\ UNCHANGED <<mcalls, response, temp_file, controller, model_manager,
                   translatorVars, parserVars, visualizerVars>>

\* Lines 55-65: the prints read model_xbrl.modelDocument.entityName and
\* .period and every fact's concept label and value; None has no
\* modelDocument, and a model may lack what is read.  Then the model is
\* returned.
print_information ==
    /\ mpc = "print"
    /\ mpc' = "finally"
    /\ \/ /\ outcome.model # NULL
          /\ Log("printed")
          /\ UNCHANGED outcome
       \/ /\ Log("print raised")
          /\ Raise("AttributeError")
    /\ UNCHANGED <<mcalls, response, temp_file, controller, model_manager,
                   translatorVars, parserVars, visualizerVars>>

\* The finally clause with the file removed last.
CleanupRemovingLast(file, manager, pending) ==
    IF manager = "unbound"
      THEN [temp_file |-> file, model_manager |-> manager,
            outcome |-> [raised |-> "UnboundLocalError", model |-> NULL]]
      ELSE [temp_file |-> "absent", model_manager |-> "closed", outcome |-> pending]

\* Lines 67-74: the file is removed when it exists; then `if model_manager`
\* reads a local that is unbound when line 46 or 49 raised, and the
\* UnboundLocalError replaces the pending exception.
Cleanup(file, manager, pending) ==
    IF manager = "unbound"
      THEN [temp_file |-> "absent", model_manager |-> manager,
            outcome |-> [raised |-> "UnboundLocalError", model |-> NULL]]
      ELSE [temp_file |-> "absent", model_manager |-> "closed", outcome |-> pending]

finally_cleanup ==
    /\ mpc = "finally"
    /\ LET r == Cleanup(temp_file, model_manager, outcome)
       IN  /\ temp_file' = r.temp_file
           /\ model_manager' = r.model_manager
           /\ outcome' = r.outcome
           /\ controller' = IF r.model_manager = "closed" THEN "closed" ELSE controller
    /\ Log("cleanup")
    /\ mpc' = "exit"
    /\ UNCHANGED <<mcalls, response, translatorVars, parserVars, visualizerVars>>

InitMain ==
    /\ arg = NoModel
    /\ Start

NextMain ==
    \/ parse_amazon_xbrl
    \/ session_get
    \/ raise_for_status
    \/ except_HTTPError
    \/ write_temp_file
    \/ init_controller
    \/ init_model_manager
    \/ load
    \/ print_information
    \/ finally_cleanup

SpecMain == InitMain /\ [][NextMain]_vars

(***************************************************************************)
(* RDFVisualizer (rdf_visualizer.py): the networkx DiGraph built from an   *)
(* RDF graph, and its JSON export.  The DiGraph is a set of nodes, each    *)
(* with its id and type attribute, and a set of edges, each with its two   *)
(* ends and its label attribute.                                           *)
(***************************************************************************)
\* The namespaces of the translator's URIs (xbrl_to_rdf.py, lines 36-45).
IRI(kind) ==
    CASE kind = "concept" -> "http://example.com/concepts/"
      [] kind = "context" -> "http://example.com/contexts/"
      [] kind = "fact" -> "http://example.com/facts/"
      [] kind = "rel" -> "http://example.com/relationships/"
      [] kind = "taxonomy" -> "http://example.com/taxonomy/"
      [] kind = "company" -> "http://example.com/company/"
      [] kind = "xbrl" -> "http://www.xbrl.org/2003/instance#"

\* str(term): the IRI of a URI, the identifier of a blank node, the lexical
\* form of a literal (its datatype is not part of the text).
str(t) ==
    CASE t[1] = "lit" -> t[2]
      [] t[1] = "datetime" -> "2024-01-01T00:00:0" \o ToString(t[2])
      [] t[1] = "bnode" -> "N" \o ToString(t[2])
      [] t[1] \in {"fact", "rel"} -> IRI(t[1]) \o ToString(t[2])
      [] OTHER -> IRI(t[1]) \o t[2]

\* DiGraph.add_node: a node that exists keeps its id and takes the new
\* attribute.
add_node(nx, id, type) ==
    [nx EXCEPT !.nodes = {n \in nx.nodes : n.id # id} \cup {[id |-> id, type |-> type]}]

\* DiGraph.add_edge: a DiGraph holds one edge per ordered pair of nodes; an
\* edge that exists takes the new label.
add_edge(nx, u, v, label) ==
    [nx EXCEPT !.edges = {e \in nx.edges : ~(e.source = u /\ e.target = v)}
                        \cup {[source |-> u, target |-> v, label |-> label]}]

\* Lines 27-34: the body of the loop for one triple.
AddTriple(nx, t) ==
    add_edge(add_node(add_node(nx, str(t[1]), "subject"), str(t[3]), "object"),
             str(t[1]), str(t[3]), t[2])

\* Lines 25-34: the loop over the triples in the order the graph yields them.
RECURSIVE build_networkx_graph(_, _)
build_networkx_graph(nx, order) ==
    IF order = <<>> THEN nx
    ELSE build_networkx_graph(AddTriple(nx, Head(order)), Tail(order))

\* The orders in which iterating a graph may yield its triples.
Orders(graph) ==
    {f \in [1..Cardinality(graph) -> graph] : {f[i] : i \in DOMAIN f} = graph}

\* Lines 17-21: an empty graph (or None) is rejected, otherwise the DiGraph
\* is built.
RDFVisualizer ==
    /\ vpc = "new"
    /\ IF rdf_graph = {}
         THEN /\ vpc' = "rejected"
              /\ UNCHANGED nx_graph
         ELSE /\ vpc' = "built"
              /\ \E order \in Orders(rdf_graph) :
                    nx_graph' = build_networkx_graph(NoGraphData, order)
    /\ UNCHANGED <<translatorVars, parserVars, rdf_graph, graph_data, mainVars>>

\* Lines 273-295: the nodes and the edges of the DiGraph, written as JSON.
export_to_json ==
    /\ vpc = "built"
    /\ vpc' = "exported"
    /\ graph_data' = [nodes |-> nx_graph.nodes, edges |-> nx_graph.edges]
    /\ UNCHANGED <<translatorVars, parserVars, rdf_graph, nx_graph, mainVars>>

\* Triples as the translator writes them: a concept whose standard label is
\* its local name, a fact with its value and its precision.
TripleSamples ==
    { <<CONCEPT("Revenues"), "rdf:type", XBRL("Concept")>>,
      <<CONCEPT("Revenues"), "rdfs:label", Literal("Revenues", "plain")>>,
      <<CONCEPT("Revenues"), "xbrl:standardLabel", Literal("Revenues", "plain")>>,
      <<doc_uri, "xbrl:hasFact", FACT(1)>>,
      <<FACT(1), "xbrl:concept", CONCEPT("Revenues")>>,
      <<FACT(1), "xbrl:value", Literal("4", "xsd:decimal")>>,
      <<FACT(1), "xbrl:precision", Literal("4", "plain")>> }

InitVisualizer ==
    /\ arg = NoModel
    /\ TranslatorStart
    /\ ParserStart
    /\ MainIdle
    /\ rdf_graph \in {graph \in SUBSET TripleSamples : Cardinality(graph) <= MaxTriples}
    /\ vpc = "new"
    /\ nx_graph = NoGraphData
    /\ graph_data = NoGraphData

NextVisualizer ==
    \/ RDFVisualizer
    \/ export_to_json

SpecVisualizer == InitVisualizer /\ [][NextVisualizer]_vars

(***************************************************************************)
(* Reading the graph and the model.                                        *)
(***************************************************************************)
xbrl_model == arg.model

SubjectsOfType(graph, class) ==
    {t[1] : t \in {u \in graph : u[2] = "rdf:type" /\ u[3] = XBRL(class)}}

Objects(graph, s, p) == {t[3] : t \in {u \in graph : u[1] = s /\ u[2] = p}}

\* The items pass p translated completely, and those it began.
Completed(p, n) == Done(xbrl_model.raises[p], n)

Begun(p, n) == Completed(p, n) + (IF Partial(xbrl_model.raises[p]) THEN 1 ELSE 0)

(***************************************************************************)
(* C1: after xbrl_to_rdf returns, self.errors has gained exactly one entry *)
(* for each of the five passes that raised during the call, and none for a *)
(* pass that did not raise.                                                *)
(***************************************************************************)
C1_OneEntryPerRaisingPass ==
    pc = "returned" => Len(errors) - errorsAtCall = Len(caught)

(***************************************************************************)
(* C2: whichever passes raise, every later pass still runs and xbrl_to_rdf *)
(* returns its graph: the passes run are always a prefix of the five in    *)
(* order, all five have run when the call returns, a pass that is due can  *)
(* run, and the call raises only before its first pass.                    *)
(***************************************************************************)
C2_EveryPassRuns ==
    /\ Len(ran) <= Len(PassOrder)
    /\ \A i \in 1..Len(ran) : ran[i] = PassOrder[i]
    /\ \A i \in 1..Len(caught) : \E j \in 1..Len(ran) : ran[j] = caught[i]
    /\ pc \in Passes => pc = PassOrder[Len(ran) + 1]
    /\ pc = "concepts" => ENABLED run_translate_concepts
    /\ pc = "contexts" => ENABLED run_translate_contexts
    /\ pc = "facts" => ENABLED run_translate_facts
    /\ pc = "relationships" => ENABLED run_translate_relationships
    /\ pc = "taxonomy" => ENABLED run_translate_taxonomy
    /\ pc = "finish" => ran = PassOrder /\ ENABLED xbrl_to_rdf_return
    /\ pc = "returned" => ran = PassOrder /\ g # {}
    /\ pc = "raised" => ran = <<>>

C2_AllFivePassesRaised ==
    /\ pc = "returned"
    /\ caught = PassOrder
    /\ ran = PassOrder

(***************************************************************************)
(* C3: a pass that raises at its k-th item leaves the triples of items     *)
(* 1..k-1 in the returned graph, and the passes after it still populate    *)
(* the graph: in the returned graph every concept before the failure point *)
(* of the concepts pass has all its triples, and the contexts, facts and   *)
(* relationships translated before their own failure points are subjects.  *)
(***************************************************************************)
C3_PartialOutputKept ==
    pc = "returned" =>
        LET m == xbrl_model IN
        /\ \A i \in 1..Completed("concepts", Len(m.qnameConcepts)) :
              /\ CONCEPT(m.qnameConcepts[i].localName) \in SubjectsOfType(g, "Concept")
              /\ ConceptTriples(m.qnameConcepts[i]) \subseteq g
        /\ \A i \in 1..Completed("contexts", Len(m.contexts)) :
              CONTEXT(m.contexts[i].id) \in SubjectsOfType(g, "Context")
        /\ Cardinality(SubjectsOfType(g, "Fact")) = Begun("facts", Len(m.facts))
        /\ Cardinality(SubjectsOfType(g, "Relationship"))
              = Begun("relationships", EdgeCount(m.relationshipSets))

C3_ThirdConceptRaised ==
    /\ pc = "returned"
    /\ xbrl_model.raises.concepts.at = 3
    /\ Len(xbrl_model.qnameConcepts) = 3
    /\ {CONCEPT(xbrl_model.qnameConcepts[i].localName) : i \in 1..2}
          = SubjectsOfType(g, "Concept")
    /\ Cardinality(SubjectsOfType(g, "Concept")) = 2
    /\ SubjectsOfType(g, "Context") # {}
    /\ SubjectsOfType(g, "Fact") # {}
    /\ SubjectsOfType(g, "Relationship") # {}

(***************************************************************************)
(* C4 as claimed: in every returned graph every fact subject has exactly   *)
(* one concept link and exactly one context link, each to a Concept        *)
(* (Context) subject of the same graph.                                    *)
(***************************************************************************)
C4_ExactlyOneMintedLink ==
    pc = "returned" =>
        \A s \in SubjectsOfType(g, "Fact") :
            /\ Cardinality(Objects(g, s, "xbrl:concept")) = 1
            /\ Cardinality(Objects(g, s, "xbrl:context")) = 1
            /\ Objects(g, s, "xbrl:concept") \subseteq SubjectsOfType(g, "Concept")
            /\ Objects(g, s, "xbrl:context") \subseteq SubjectsOfType(g, "Context")

(***************************************************************************)
(* C4 as amended: in every returned graph every fact subject has at most   *)
(* one concept link and at most one context link; a fact translated        *)
(* completely has a concept (context) link exactly when its concept        *)
(* (context) is set, and then to that concept (context); and a link's      *)
(* target is a Concept (Context) subject of the graph whenever the         *)
(* concepts (contexts) pass reached that concept (context) before it       *)
(* ended.                                                                  *)
(***************************************************************************)
C4_LinksOfFacts ==
    pc = "returned" =>
        LET m == xbrl_model
            reachedConcepts ==
                {CONCEPT(m.qnameConcepts[i].localName)
                 : i \in 1..Begun("concepts", Len(m.qnameConcepts))}
            reachedContexts ==
                {CONTEXT(m.contexts[i].id) : i \in 1..Begun("contexts", Len(m.contexts))}
        IN  /\ \A s \in SubjectsOfType(g, "Fact") :
                  /\ Cardinality(Objects(g, s, "xbrl:concept")) <= 1
                  /\ Cardinality(Objects(g, s, "xbrl:context")) <= 1
                  /\ Objects(g, s, "xbrl:concept") \cap reachedConcepts
                        \subseteq SubjectsOfType(g, "Concept")
                  /\ Objects(g, s, "xbrl:context") \cap reachedContexts
                        \subseteq SubjectsOfType(g, "Context")
            /\ \A i \in 1..Completed("facts", Len(m.facts)) :
                  /\ FACT(factUris[i]) \in SubjectsOfType(g, "Fact")
                  /\ Objects(g, FACT(factUris[i]), "xbrl:concept")
                        = (IF m.facts[i].concept \in {NULL, ABSENT} THEN {}
                           ELSE {CONCEPT(m.facts[i].concept)})
                  /\ Objects(g, FACT(factUris[i]), "xbrl:context")
                        = (IF m.facts[i].context \in {NULL, ABSENT} THEN {}
                           ELSE {CONTEXT(m.facts[i].context)})

C4_LinkedAndUnlinkedFacts ==
    /\ pc = "returned"
    /\ \E i \in 1..Len(factUris) :
          /\ Objects(g, FACT(factUris[i]), "xbrl:concept") = {}
          /\ Objects(g, FACT(factUris[i]), "xbrl:context") # {}
    /\ \E i \in 1..Len(factUris) :
          /\ Objects(g, FACT(factUris[i]), "xbrl:concept") # {}
          /\ Objects(g, FACT(factUris[i]), "xbrl:concept")
                \subseteq SubjectsOfType(g, "Concept")
          /\ Objects(g, FACT(factUris[i]), "xbrl:context") # {}
          /\ Objects(g, FACT(factUris[i]), "xbrl:context")
                \subseteq SubjectsOfType(g, "Context")

(***************************************************************************)
(* C5: for every context that has period data, the period sub-node carries *)
(* exactly one of the two shapes, an instant timestamp or a start and an   *)
(* end timestamp: never both and never neither.                            *)
(***************************************************************************)
C5_ExactlyOnePeriodShape ==
    pc = "returned" =>
        \A i \in 1..Completed("contexts", Len(xbrl_model.contexts)) :
            LET c == xbrl_model.contexts[i]
                nodes == Objects(g, CONTEXT(c.id), "xbrl:period")
            IN  truthy(c.period) =>
                  /\ Cardinality(nodes) = 1
                  /\ \A b \in nodes :
                        LET instant == Objects(g, b, "xbrl:instant") # {}
                            start == Objects(g, b, "xbrl:startDate") # {}
                            end == Objects(g, b, "xbrl:endDate") # {}
                        IN  \/ instant /\ ~start /\ ~end
                            \/ ~instant /\ start /\ end

(***************************************************************************)
(* C6: a numeric fact with a value carries at most one of a precision      *)
(* triple and a decimals triple, and when the fact has both precision and  *)
(* decimals the precision triple is there and the decimals triple is not.  *)
(***************************************************************************)
C6_PrecisionBeforeDecimals ==
    pc = "returned" =>
        /\ \A s \in SubjectsOfType(g, "Fact") :
              Cardinality(Objects(g, s, "xbrl:precision")
                          \cup Objects(g, s, "xbrl:decimals")) <= 1
        /\ \A i \in 1..Completed("facts", Len(xbrl_model.facts)) :
              LET fact == xbrl_model.facts[i] IN
              (/\ fact.isNumeric
               /\ fact.value \notin {NULL, ABSENT}
               /\ fact.precision \notin {NULL, ABSENT}
               /\ fact.decimals \notin {NULL, ABSENT})
              => /\ Objects(g, FACT(factUris[i]), "xbrl:precision")
                       = {Literal(fact.precision, "plain")}
                 /\ Objects(g, FACT(factUris[i]), "xbrl:decimals") = {}

C6_FactWithBoth ==
    /\ pc = "returned"
    /\ \E i \in 1..Completed("facts", Len(xbrl_model.facts)) :
          /\ xbrl_model.facts[i].isNumeric
          /\ xbrl_model.facts[i].value # NULL
          /\ xbrl_model.facts[i].precision = "4"
          /\ xbrl_model.facts[i].decimals = "-6"
          /\ <<FACT(factUris[i]), "xbrl:precision", Literal("4", "plain")>> \in g

(***************************************************************************)
(* C7: the constructor fails with an invalid-input error exactly when the  *)
(* model handed to it is null; every non-null model is accepted.           *)
(***************************************************************************)
C7_RejectsExactlyNull ==
    pc # "new" =>
        /\ (pc = "rejected") = (arg.kind = "none")
        /\ (ctorError # "none") = (arg.kind = "none")

(***************************************************************************)
(* C8: given a non-empty graph and a non-empty filename, save_rdf_graph    *)
(* fails with the unsupported-format error exactly when the format is not  *)
(* one of turtle, xml, n3, json-ld, and for each of these four it          *)
(* serializes the graph to the destination.                                *)
(***************************************************************************)
C8_UnsupportedFormatExactly ==
    (saves > 0 /\ lastSave.graph = "nonempty" /\ lastSave.filename \notin {NULL, ""}) =>
        LET known == lastSave.format \in {"turtle", "xml", "n3", "json-ld"} IN
        /\ (lastSave.error = "Unsupported format") = ~known
        /\ lastSave.serialized = known
        /\ known => lastSave.error \in {"none", "serialize failed"}
        /\ lastSave.error = "none" =>
              [destination |-> lastSave.filename, format |-> lastSave.format,
               triples |-> lastSave.triples] \in files

C8_SavedAsJsonLd ==
    /\ saves > 0
    /\ lastSave.format = "json-ld"
    /\ lastSave.error = "none"
    /\ lastSave.triples = g
    /\ pc = "returned"
    /\ [destination |-> "out.ttl", format |-> "json-ld", triples |-> g] \in files

(***************************************************************************)
(* C9: save_rdf_graph fails with an invalid-argument error when the graph  *)
(* is null or empty or the filename is null or empty, and then never       *)
(* serializes the graph: the graph is checked before the filename and the  *)
(* filename before the format.                                             *)
(***************************************************************************)
C9_InvalidArguments ==
    /\ [](saves > 0 =>
            /\ lastSave.graph \in {"none", "empty"} =>
                  /\ lastSave.error = "RDF graph cannot be None"
                  /\ ~lastSave.serialized
            /\ (lastSave.graph = "nonempty" /\ lastSave.filename \in {NULL, ""}) =>
                  /\ lastSave.error = "Output filename cannot be None"
                  /\ ~lastSave.serialized)
    /\ [][(saves' = saves + 1
           /\ (lastSave'.graph \in {"none", "empty"} \/ lastSave'.filename \in {NULL, ""}))
          => files' = files]_vars

C9_BadGraphBadFilenameBadFormat ==
    /\ saves > 0
    /\ lastSave.graph = "empty"
    /\ lastSave.filename = NULL
    /\ lastSave.format = "nt"
    /\ lastSave.error = "RDF graph cannot be None"

(***************************************************************************)
(* C10: for a model without relationships (no relationship-set index, an   *)
(* empty one, or only empty relationship sets) the graph has no            *)
(* Relationship subject and no hasRelationship triple, and the             *)
(* relationships pass adds no entry to self.errors.                        *)
(***************************************************************************)
ZeroRelationships ==
    LET r == xbrl_model.relationshipSets IN
    r.present =>
        \A j \in 1..Len(r.index) :
            \A k \in 1..Len(r.index[j].linkroles) :
                r.index[j].linkroles[k].modelRelationships = <<>>

C10_NoRelationshipSubjects ==
    /\ [](ZeroRelationships =>
            /\ SubjectsOfType(g, "Relationship") = {}
            /\ {t \in g : t[2] = "xbrl:hasRelationship"} = {})
    /\ [][(ZeroRelationships /\ pc = "relationships") => errors' = errors]_vars

C10_OnlyEmptySets ==
    /\ pc = "returned"
    /\ ZeroRelationships
    /\ xbrl_model.relationshipSets.present
    /\ Len(xbrl_model.relationshipSets.index) = 2
    /\ Len(xbrl_model.relationshipSets.index[1].linkroles) = 2
    /\ SubjectsOfType(g, "Relationship") = {}
    /\ SubjectsOfType(g, "Fact") # {}

(***************************************************************************)
(* C11: within one xbrl_to_rdf call the passes run in the fixed order      *)
(* concepts, contexts, facts, relationships, taxonomy, one at a time; the  *)
(* document root triples are in the graph before the first pass starts;    *)
(* and no context, fact, relationship or taxonomy triple is in the graph   *)
(* before the passes ahead of its own have ended (no fact triple before    *)
(* the concepts and contexts passes have ended).                           *)
(***************************************************************************)
SubjectKinds(graph) == {t[1][1] : t \in graph}

C11_FixedPassOrder ==
    /\ [](/\ pc \in Passes \cup {"finish", "returned"} =>
                DocumentTriples(calls) \subseteq g
          /\ pc = "concepts" => g = DocumentTriples(calls)
          /\ pc \in {"concepts", "contexts"} =>
                SubjectKinds(g) \cap {"context", "fact", "rel", "taxonomy"} = {}
          /\ pc \in {"concepts", "contexts", "facts"} =>
                /\ SubjectKinds(g) \cap {"fact", "rel", "taxonomy"} = {}
                /\ {t \in g : t[2] = "xbrl:hasFact"} = {}
          /\ pc = "relationships" =>
                SubjectKinds(g) \cap {"rel", "taxonomy"} = {}
          /\ pc = "taxonomy" => SubjectKinds(g) \cap {"taxonomy"} = {})
    /\ [][(pc \in Passes) =>
            (/\ ran' = Append(ran, pc)
             /\ pc = PassOrder[Len(ran')]
             /\ pc' = IF Len(ran') < Len(PassOrder)
                        THEN PassOrder[Len(ran') + 1] ELSE "finish")]_vars

C11_FactsAfterAbandonedConcepts ==
    /\ pc = "relationships"
    /\ ran = <<"concepts", "contexts", "facts">>
    /\ caught = <<"concepts">>
    /\ SubjectsOfType(g, "Context") # {}
    /\ SubjectsOfType(g, "Fact") # {}

(***************************************************************************)
(* C13 as claimed: the number of Concept subjects in the returned graph    *)
(* equals the number of distinct local names among the model's concepts,   *)
(* and the triples of every concept are attached to the subject of its     *)
(* local name.                                                             *)
(***************************************************************************)
LocalNames(concepts, n) == {concepts[i].localName : i \in 1..n}

C13_OneSubjectPerLocalName ==
    pc = "returned" =>
        LET cs == xbrl_model.qnameConcepts IN
        /\ Cardinality(SubjectsOfType(g, "Concept"))
              = Cardinality(LocalNames(cs, Len(cs)))
        /\ \A i \in 1..Len(cs) :
              ConceptTriples(cs[i]) \subseteq {t \in g : t[1] = CONCEPT(cs[i].localName)}

(***************************************************************************)
(* C13 as amended: when the concepts pass completes without raising, the   *)
(* Concept subjects are exactly the URIs of the distinct local names among *)
(* the model's concepts, and when it raises, of those among the concepts   *)
(* it reached before raising; concepts that share a local name share the   *)
(* subject, whatever their namespaces, and the triples on that subject are *)
(* exactly the triples of all the concepts of that local name together.    *)
(***************************************************************************)
C13_OneSubjectPerReachedLocalName ==
    pc = "returned" =>
        LET cs == xbrl_model.qnameConcepts
            begun == Begun("concepts", Len(cs))
            done == Completed("concepts", Len(cs))
        IN  /\ SubjectsOfType(g, "Concept") = {CONCEPT(n) : n \in LocalNames(cs, begun)}
            /\ Cardinality(SubjectsOfType(g, "Concept"))
                  = Cardinality(LocalNames(cs, begun))
            /\ ~Raised(xbrl_model.raises.concepts) =>
                  Cardinality(SubjectsOfType(g, "Concept"))
                     = Cardinality(LocalNames(cs, Len(cs)))
            /\ \A n \in LocalNames(cs, begun) :
                  {t \in g : t[1] = CONCEPT(n)}
                     = UNION {ConceptTriples(cs[i]) : i \in {j \in 1..done : cs[j].localName = n}}
                       \cup UNION {ConceptBasic(cs[i])
                                   : i \in {j \in (done + 1)..begun : cs[j].localName = n}}

C13_TwoNamespacesOneSubject ==
    /\ pc = "returned"
    /\ ~Raised(xbrl_model.raises.concepts)
    /\ \E i, j \in 1..Len(xbrl_model.qnameConcepts) :
          /\ xbrl_model.qnameConcepts[i] = Revenues
          /\ xbrl_model.qnameConcepts[j] = RevenuesIfrs
    /\ Len(xbrl_model.qnameConcepts) = 3
    /\ Cardinality(SubjectsOfType(g, "Concept")) = 2
    /\ Objects(g, CONCEPT("Revenues"), "xbrl:standardLabel")
          = {Literal("Revenues", "plain"), Literal("Revenue", "plain")}

(***************************************************************************)
(* C14: for every concept, an attribute (standard label, declared type,    *)
(* period-type, balance, abstract flag, substitution group) whose value is *)
(* absent or null in the model produces no triple on the concept subject:  *)
(* the graph never holds a concept triple whose object stands for a null   *)
(* value.                                                                  *)
(***************************************************************************)
ConceptAttributeNames ==
    [label |-> "xbrl:standardLabel", type |-> "xbrl:type",
     periodType |-> "xbrl:periodType", balance |-> "xbrl:balance",
     isAbstract |-> "xbrl:abstract", substitutionGroup |-> "xbrl:substitutionGroup"]

C14_NoNullTriples ==
    /\ \A t \in g : t[1][1] = "concept" /\ t[3][1] = "lit" => t[3][2] # NULL
    /\ pc = "returned" =>
          LET cs == xbrl_model.qnameConcepts IN
          \A a \in DOMAIN ConceptAttributeNames :
              \A n \in LocalNames(cs, Len(cs)) :
                  (\A i \in 1..Len(cs) :
                       cs[i].localName = n => cs[i][a] \in {NULL, ABSENT})
                  => Objects(g, CONCEPT(n), ConceptAttributeNames[a]) = {}

(***************************************************************************)
(* C15: when the facts pass completes without raising, the graph has       *)
(* exactly as many Fact subjects as the model has facts (two facts never   *)
(* share a subject, also when they are identical in concept, context and   *)
(* value), and every Fact subject is the object of exactly one hasFact     *)
(* triple, whose subject is the document root.                             *)
(***************************************************************************)
FactsPassEnded == pc \in {"relationships", "taxonomy", "finish", "returned"}

C15_OneSubjectPerFact ==
    (FactsPassEnded /\ ~Raised(xbrl_model.raises.facts)) =>
        /\ Cardinality(SubjectsOfType(g, "Fact")) = Len(xbrl_model.facts)
        /\ Len(factUris) = Len(xbrl_model.facts)
        /\ \A i, j \in 1..Len(factUris) : i # j => factUris[i] # factUris[j]
        /\ SubjectsOfType(g, "Fact") = {FACT(factUris[i]) : i \in 1..Len(factUris)}
        /\ \A s \in SubjectsOfType(g, "Fact") :
              {t \in g : t[2] = "xbrl:hasFact" /\ t[3] = s}
                 = {<<doc_uri, "xbrl:hasFact", s>>}
        /\ {t[3] : t \in {u \in g : u[2] = "xbrl:hasFact"}} = SubjectsOfType(g, "Fact")

C15_TwoIdenticalFacts ==
    /\ pc = "returned"
    /\ ~Raised(xbrl_model.raises.facts)
    /\ Len(xbrl_model.facts) = 2
    /\ xbrl_model.facts[1] = xbrl_model.facts[2]
    /\ Cardinality(SubjectsOfType(g, "Fact")) = 2
    /\ \A i \in 1..2 : <<doc_uri, "xbrl:hasFact", FACT(factUris[i])>> \in g

(***************************************************************************)
(* C16: a translated fact with a non-null value has exactly one value      *)
(* triple, decimal-typed when the fact is numeric and plain string-typed   *)
(* when it is not; a non-numeric fact has no unit sub-node, no precision   *)
(* triple and no decimals triple; a fact whose value is null has no value, *)
(* unit, precision or decimals triple; and no fact subject has more than   *)
(* one value triple.                                                       *)
(***************************************************************************)
C16_ValueByKind ==
    pc = "returned" =>
        /\ \A s \in SubjectsOfType(g, "Fact") :
              Cardinality(Objects(g, s, "xbrl:value")) <= 1
        /\ \A i \in 1..Completed("facts", Len(xbrl_model.facts)) :
              LET fact == xbrl_model.facts[i]
                  s == FACT(factUris[i])
                  null == fact.value \in {NULL, ABSENT}
                  extras == Objects(g, s, "xbrl:unit") \cup Objects(g, s, "xbrl:precision")
                            \cup Objects(g, s, "xbrl:decimals")
              IN  /\ (~null /\ fact.isNumeric) =>
                        Objects(g, s, "xbrl:value") = {<<"lit", fact.value, "xsd:decimal">>}
                  /\ (~null /\ ~fact.isNumeric) =>
                        Objects(g, s, "xbrl:value") = {<<"lit", fact.value, "plain">>}
                  /\ ~fact.isNumeric => extras = {}
                  /\ null => Objects(g, s, "xbrl:value") = {} /\ extras = {}

C16_TextFactAndNullFact ==
    /\ pc = "returned"
    /\ Completed("facts", Len(xbrl_model.facts)) = 2
    /\ LET a == xbrl_model.facts[1]
           b == xbrl_model.facts[2]
       IN  /\ a.value = NULL /\ a.isNumeric /\ a.unit = "unit" /\ a.precision = "4"
           /\ b.value = "n/a" /\ ~b.isNumeric /\ b.unit = "unit" /\ b.decimals = "-6"
           /\ Objects(g, FACT(factUris[1]), "xbrl:value") = {}
           /\ Objects(g, FACT(factUris[2]), "xbrl:value") = {Literal("n/a", "plain")}
           /\ Objects(g, FACT(factUris[2]), "xbrl:unit") = {}

(***************************************************************************)
(* C17 as claimed: when the relationships pass completes without raising,  *)
(* the number of Relationship subjects equals the number of relationship   *)
(* edges summed over every (arcrole, linkrole) pair of the index; each     *)
(* subject is freshly identified, linked from the document root, and       *)
(* carries exactly one arcrole and one linkrole, those of the pair its     *)
(* edge was found under, and a source and a target concept URI.            *)
(***************************************************************************)
RelationshipsPassEnded == pc \in {"taxonomy", "finish", "returned"}

\* The edges of the model in iteration order, and the subject of the i-th.
ModelEdges ==
    IF xbrl_model.relationshipSets.present
      THEN Edges(xbrl_model.relationshipSets.index) ELSE <<>>

RelUri(i) == REL(fresh - Begun("relationships", Len(ModelEdges)) + i - 1)

RelationshipsCounted ==
    LET edges == ModelEdges
        first == fresh - Begun("relationships", Len(edges))
        rels == {t \in g : t[1][1] = "rel" \/ t[3][1] = "rel"}
    IN  /\ Cardinality(SubjectsOfType(rels, "Relationship")) = Len(edges)
        /\ SubjectsOfType(rels, "Relationship") = {REL(first + i - 1) : i \in 1..Len(edges)}
        /\ SubjectsOfType(g, "Relationship") = SubjectsOfType(rels, "Relationship")
        /\ \A i \in 1..Len(edges) :
              LET s == REL(first + i - 1) IN
              /\ {t \in rels : t[3] = s} = {<<doc_uri, "xbrl:hasRelationship", s>>}
              /\ Objects(rels, s, "rdf:type") = {XBRL("Relationship")}
              /\ Objects(rels, s, "xbrl:arcrole") = {<<"lit", edges[i].arcrole, "plain">>}
              /\ Objects(rels, s, "xbrl:linkrole") = {<<"lit", edges[i].linkrole, "plain">>}

C17_EdgesFullyLinked ==
    (RelationshipsPassEnded /\ ~Raised(xbrl_model.raises.relationships)) =>
        /\ RelationshipsCounted
        /\ \A i \in 1..Len(ModelEdges) :
              /\ Cardinality(Objects(g, RelUri(i), "xbrl:source")) = 1
              /\ Cardinality(Objects(g, RelUri(i), "xbrl:target")) = 1

(***************************************************************************)
(* C17 as amended: the same, except that a subject carries a source        *)
(* (target) concept URI exactly when its edge's source (target) object is  *)
(* set, and then exactly one, that of the object's local name.             *)
(***************************************************************************)
C17_EdgesLinkedWhereSet ==
    (RelationshipsPassEnded /\ ~Raised(xbrl_model.raises.relationships)) =>
        /\ RelationshipsCounted
        /\ ModelEdges # <<>> =>
              LET edges == ModelEdges IN
              \A i \in 1..Len(edges) :
              LET rel == edges[i].rel IN
              /\ Objects(g, RelUri(i), "xbrl:source")
                    = (IF rel.fromModelObject \in {NULL, ABSENT} THEN {}
                       ELSE {<<"concept", rel.fromModelObject>>})
              /\ Objects(g, RelUri(i), "xbrl:target")
                    = (IF rel.toModelObject \in {NULL, ABSENT} THEN {}
                       ELSE {<<"concept", rel.toModelObject>>})

C17_EdgesUnderThreePairs ==
    /\ pc = "returned"
    /\ ~Raised(xbrl_model.raises.relationships)
    /\ Len(xbrl_model.relationshipSets.index) = 2
    /\ Len(xbrl_model.relationshipSets.index[1].linkroles) = 2
    /\ Len(ModelEdges) = 4
    /\ Cardinality(SubjectsOfType(g, "Relationship")) = 4
    /\ {Objects(g, RelUri(i), "xbrl:linkrole") : i \in 1..4}
          = {{Literal("role/IS", "plain")}, {Literal("role/BS", "plain")}}
    /\ \E i \in 1..4 : Objects(g, RelUri(i), "xbrl:target") = {}
    /\ \E i \in 1..4 : Objects(g, RelUri(i), "xbrl:arcrole")
                          = {Literal("summation-item", "plain")}

(***************************************************************************)
(* C18: for every context, each dimensional qualifier produces exactly one *)
(* segment sub-node attached to the context subject, carrying exactly one  *)
(* dimension link and exactly one of an explicit member concept link and a *)
(* typed literal value: never both and never neither.                      *)
(***************************************************************************)
C18_SegmentPerQualifier ==
    pc = "returned" =>
        \A i \in 1..Completed("contexts", Len(xbrl_model.contexts)) :
            LET c == xbrl_model.contexts[i]
                nodes == Objects(g, CONTEXT(c.id), "xbrl:segment")
            IN  /\ Cardinality(nodes) = Len(c.qnameDims)
                /\ \A j \in 1..Len(c.qnameDims) :
                      \E b \in nodes :
                          Objects(g, b, "xbrl:dimension")
                             = {<<"concept", c.qnameDims[j].dimension>>}
                /\ \A b \in nodes :
                      /\ Cardinality(Objects(g, b, "xbrl:dimension")) = 1
                      /\ Cardinality(Objects(g, b, "xbrl:member")
                                     \cup Objects(g, b, "xbrl:typedValue")) = 1

(***************************************************************************)
(* C19: for numeric facts with a unit, two units that differ only in which *)
(* measures are in the numerator and which in the denominator (A/B and     *)
(* B/A, A x B and A/B) produce different unit sub-node triple sets: what   *)
(* the two unit nodes carry, their own identity apart, differs.            *)
(***************************************************************************)
\* What the unit sub-node of a fact subject carries.
UnitDescription(s) ==
    {<<t[2], t[3]>> : t \in {u \in g : u[1] \in Objects(g, s, "xbrl:unit")}}

Measures(list) == {list[k] : k \in 1..Len(list)}

\* The same measures, placed differently in numerator and denominator.
DifferInPlacementOnly(a, b) ==
    /\ Len(a.measures) = 2 /\ Len(b.measures) = 2
    /\ Measures(Flatten(a.measures)) = Measures(Flatten(b.measures))
    /\ <<Measures(a.measures[1]), Measures(a.measures[2])>>
          # <<Measures(b.measures[1]), Measures(b.measures[2])>>

C19_RatioUnitsDistinguished ==
    pc = "returned" =>
        \A i, j \in 1..Completed("facts", Len(xbrl_model.facts)) :
            LET a == xbrl_model.facts[i]
                b == xbrl_model.facts[j]
            IN  (HasUnitNode(a) /\ HasUnitNode(b) /\ DifferInPlacementOnly(a, b))
                => UnitDescription(FACT(factUris[i])) # UnitDescription(FACT(factUris[j]))

(***************************************************************************)
(* C12: load_filing never raises to its caller: a filing that cannot be    *)
(* fetched or parsed (the engine raises, or yields no model) is reported   *)
(* as the return value False, and True is returned exactly when the engine *)
(* produced a non-null model.                                              *)
(***************************************************************************)
C12_LoadFilingReturnsBoolean ==
    \A i \in 1..Len(loadLog) :
        /\ ~loadLog[i].raised
        /\ loadLog[i].engine.raised \in {"FileSource", "load"} => ~loadLog[i].returned
        /\ loadLog[i].returned
              = (loadLog[i].engine.raised = "none" /\ loadLog[i].engine.model # NULL)

C12_LoadRaisedAfterLoad ==
    /\ Len(loadLog) = 2
    /\ loadLog[1].returned
    /\ loadLog[2].engine.raised = "load"
    /\ ~loadLog[2].returned
    /\ ~loadLog[2].raised
    /\ model_xbrl = loadLog[1].file_path

(***************************************************************************)
(* C20: the visualizer's directed graph has one node for every term that   *)
(* occurs as subject or object of a triple and one edge per triple: for    *)
(* every triple (s, p, o) of the RDF graph there is an edge from s to o    *)
(* whose label is p, so the number of edges equals the number of triples;  *)
(* the JSON export lists these nodes and edges.                            *)
(***************************************************************************)
Terms(graph) == {t[1] : t \in graph} \cup {t[3] : t \in graph}

OneEdgePerTriple(nx) ==
    /\ Cardinality(nx.nodes) = Cardinality(Terms(rdf_graph))
    /\ \A x \in Terms(rdf_graph) : \E n \in nx.nodes : n.id = str(x)
    /\ \A t \in rdf_graph :
          [source |-> str(t[1]), target |-> str(t[3]), label |-> t[2]] \in nx.edges
    /\ Cardinality(nx.edges) = Cardinality(rdf_graph)

C20_OneEdgePerTriple ==
    /\ vpc \in {"built", "exported"} => OneEdgePerTriple(nx_graph)
    /\ vpc = "exported" => OneEdgePerTriple(graph_data)

(***************************************************************************)
(* C23: an error raised while the graph itself is built, outside the five  *)
(* passes (creating the graph, binding the namespaces, adding the document *)
(* root triples), is not collected in self.errors: the call ends raised,   *)
(* no graph is returned and none of the five passes runs.                  *)
(***************************************************************************)
C23_FatalErrorPropagates ==
    /\ [][(calls' # calls /\ pc' = "raised")
             => (g' = {} /\ ran' = <<>> /\ caught' = <<>> /\ errors' = errors)]_vars
    /\ [](pc = "raised" => (g = {} /\ ran = <<>> /\ Len(errors) = errorsAtCall))

C23_GraphNotBuilt ==
    /\ pc = "raised"
    /\ calls = 1
    /\ g = {}
    /\ ran = <<>>
    /\ errors = <<>>
    /\ ~Falsy(arg)

(***************************************************************************)
(* C25: every failing save_rdf_graph call (a null or empty graph, a null   *)
(* or empty filename, an unsupported format, a serialization error)        *)
(* appends exactly one entry, the message of that error, to self.errors    *)
(* and raises the error to the caller; a successful save appends nothing.  *)
(***************************************************************************)
SaveFailures ==
    {"RDF graph cannot be None", "Output filename cannot be None",
     "Unsupported format", "serialize failed"}

C25_OneEntryPerFailedSave ==
    [][(saves' # saves)
         => (/\ lastSave'.error \in SaveFailures \cup {"none"}
             /\ lastSave'.error \in SaveFailures
                   => errors' = Append(errors, SaveErrorMessage(lastSave'.error))
             /\ lastSave'.error = "none" => errors' = errors)]_vars

C25_SavedThenFailed ==
    /\ saves = MaxSaves
    /\ lastSave.error = "Unsupported format"
    /\ lastSave.graph = "nonempty"
    /\ files # {}
    /\ errors = <<"Error saving RDF graph: Unsupported format">>

(***************************************************************************)
(* C26: self.errors is append-only over the translator's lifetime: every   *)
(* step of xbrl_to_rdf and save_rdf_graph leaves the entries already       *)
(* recorded in place, so what an earlier xbrl_to_rdf call logged as        *)
(* warnings is logged again, in the same place, by every later call.       *)
(***************************************************************************)
IsPrefix(a, b) == Len(a) <= Len(b) /\ SubSeq(b, 1, Len(a)) = a

C26_ErrorsAppendOnly ==
    [][/\ IsPrefix(errors, errors')
       /\ Len(returns') > Len(returns)
             => /\ returns'[Len(returns')].warnings = errors'
                /\ \A i \in 1..Len(returns) :
                      IsPrefix(returns[i].warnings, returns'[Len(returns')].warnings)]_vars

C26_EarlierEntriesLoggedAgain ==
    /\ Len(returns) = 2
    /\ Len(returns[1].warnings) = 1
    /\ Len(returns[2].warnings) = 3
    /\ returns[2].warnings[1] = returns[1].warnings[1]

(***************************************************************************)
(* C21: translation is deterministic: the graphs two xbrl_to_rdf calls on  *)
(* the same model return are equal once the freshly drawn identifiers      *)
(* (fact and relationship uuids, blank nodes) are renamed in the order     *)
(* they were drawn and the creation timestamp is set aside; and no step    *)
(* changes the input model.                                                *)
(***************************************************************************)
FreshKinds == {"fact", "rel", "bnode"}

FreshIds(graph) ==
    {t[1][2] : t \in {x \in graph : x[1][1] \in FreshKinds}}
    \cup {t[3][2] : t \in {x \in graph : x[3][1] \in FreshKinds}}

Rank(n, ids) == Cardinality({m \in ids : m <= n})

RenameTerm(t, ids) ==
    IF t[1] \in FreshKinds THEN <<t[1], Rank(t[2], ids)>>
    ELSE IF t[1] = "datetime" THEN <<"datetime", 0>>
    ELSE t

Normal(graph) ==
    LET ids == FreshIds(graph)
    IN  {<<RenameTerm(t[1], ids), t[2], RenameTerm(t[3], ids)>> : t \in graph}

C21_Deterministic ==
    /\ [][arg' = arg]_vars
    /\ [](\A i, j \in 1..Len(returns) :
             Normal(returns[i].graph) = Normal(returns[j].graph))

C21_TwoCallsFreshIdentifiers ==
    /\ Len(returns) = 2
    /\ returns[1].graph # returns[2].graph
    /\ Cardinality(FreshIds(returns[1].graph)) >= 3
    /\ FreshIds(returns[1].graph) \cap FreshIds(returns[2].graph) = {}
    /\ \E t \in returns[1].graph : t[1][1] = "fact"
    /\ \E t \in returns[1].graph : t[1][1] = "rel"

(***************************************************************************)
(* C24: after load_filing returns False the parser holds no loaded model,  *)
(* and every guarded query made then (get_company_info, extract_facts,     *)
(* get_financial_statements, get_taxonomy_info) returns its empty value,   *)
(* whatever load_filing calls came before.                                 *)
(***************************************************************************)
LastLoadFailed == Len(loadLog) > 0 /\ ~loadLog[Len(loadLog)].returned

C24_NoModelAfterFailedLoad ==
    LastLoadFailed
       => /\ model_xbrl = NULL
          /\ (lastQuery.name # "none" /\ lastQuery.after = Len(loadLog))
                => /\ lastQuery.raised = "none"
                   /\ lastQuery.list = <<>>
                   /\ lastQuery.dict = {}

(***************************************************************************)
(* C27: extract_facts with a concept filter returns, in the order of the   *)
(* model's facts, exactly the records of the facts whose concept name is   *)
(* in the filter, and without a filter one record per fact;                *)
(* get_financial_statements holds a category (income_statement,            *)
(* balance_sheet, cash_flow) exactly when some fact's concept name is in   *)
(* the category's list, and the category holds exactly those facts.        *)
(***************************************************************************)
Names(list) == {list[k] : k \in 1..Len(list)}

\* The records of the facts named in `names`, in the order of the facts.
RecordsOf(facts, names) ==
    LET Named(fact) == fact.concept \in names
        kept == SelectSeq(facts, Named)
    IN  [i \in 1..Len(kept) |-> fact_info(kept[i])]

LoadedFacts == filings[model_xbrl].facts

ExtractFactsAsClaimed ==
    lastQuery.name = "extract_facts"
       => IF lastQuery.filter.given
            THEN lastQuery.list = RecordsOf(LoadedFacts, Names(lastQuery.filter.names))
            ELSE /\ Len(lastQuery.list) = Len(LoadedFacts)
                 /\ \A i \in 1..Len(LoadedFacts) :
                       lastQuery.list[i] = fact_info(LoadedFacts[i])

StatementsAsClaimed ==
    lastQuery.name = "get_financial_statements"
       => /\ \A e \in lastQuery.dict : \E s \in StatementConcepts : e[1] = s[1]
          /\ \A s \in StatementConcepts :
                LET rows == RecordsOf(LoadedFacts, Names(s[2]))
                IN  /\ (\E e \in lastQuery.dict : e[1] = s[1]) = (rows # <<>>)
                    /\ \A e \in lastQuery.dict : e[1] = s[1] => e[2] = rows

C27_FilteredFactsAndStatements ==
    model_xbrl # NULL => (ExtractFactsAsClaimed /\ StatementsAsClaimed)

(***************************************************************************)
(* C22: a parse_amazon_xbrl call sends the download request at most once:  *)
(* once the request is answered with an error status (403 included) the    *)
(* call sends no further request, writes no temporary file and attempts    *)
(* no load, and it ends raising the HTTPError to its caller.               *)
(***************************************************************************)
Steps(log) == {log[k] : k \in 1..Len(log)}

Requests(log) == Cardinality({k \in 1..Len(log) : log[k] = "get"})

Denied == response >= 400

C22_DeniedRequestNotRetried ==
    [][/\ mcalls' = mcalls => Requests(trace') <= 1
       /\ (Denied /\ mcalls' = mcalls)
             => /\ Requests(trace') = 1
                /\ temp_file' = temp_file
                /\ Steps(trace') \subseteq {"get", "HTTPError", "HTTPError, advice printed"}
                /\ mpc' \in {"denied", "exit"}
                /\ mpc' = "exit" => outcome'.raised = "HTTPError"]_vars

C22_ForbiddenThenRaised ==
    /\ mpc = "exit"
    /\ response = 403
    /\ trace = <<"get", "HTTPError, advice printed">>
    /\ outcome.raised = "HTTPError"
    /\ temp_file = "absent"

(***************************************************************************)
(* C28: once a parse_amazon_xbrl call has written temp_amazon.xbrl, the    *)
(* file no longer exists when the call exits, on every exit path: the load *)
(* returning a model, the controller or the model manager failing to       *)
(* initialise, and the load raising.                                       *)
(***************************************************************************)
C28_TempFileRemovedOnExit ==
    (mpc = "exit" /\ "written" \in Steps(trace)) => temp_file = "absent"

C28_RemovedThoughInitialisationRaised ==
    /\ mpc = "exit"
    /\ "written" \in Steps(trace)
    /\ "initialize raised" \in Steps(trace)
    /\ outcome.raised = "UnboundLocalError"
    /\ temp_file = "absent"

====
